---- MODULE Spec2Model ----
(***************************************************************************)
(* Model of the Jab chain engine (src/src/blockchain) and of the node      *)
(* handlers that drive it (src/src/application/mod.rs).                    *)
(*                                                                         *)
(* Encodings                                                               *)
(*   Option<T>      a set with at most one element: {} is None, {x} is     *)
(*                  Some(x)                                                *)
(*   stored value   a sequence: <<b>> is the JSON of block b, <<>> is a    *)
(*                  byte string that serde_json::from_slice rejects        *)
(*   hash           the Merkle root of a transaction list is modelled by   *)
(*                  the list itself (collision free); BogusHash is a hash  *)
(*                  value that is the root of no transaction list          *)
(*   store          a function from the keys present to their values       *)
(***************************************************************************)
EXTENDS Integers, Sequences, FiniteSets, TLC

\* largest block index (store key) the model enumerates
MaxIndex == 2

\* number of distinct transactions peers and the host put in blocks
MaxTx == 2

\* the wallet addresses of the model: the genesis address, two client
\* wallets, and the address of the host's own wallet (Application::wallet)
GenesisBlockAddress == "jabbe2cce18177f64c3eb2cc51f0bd640dec8b22668"
Alice == "jabA"
Bob == "jabB"
HostAddress == "jabH"

\* amounts are in hundredths of a jab; the fee of Application::on_transaction
\* is dec!(0.02)
Fee == 2
GenesisAmount == 50000

\* UnlockInput::new / LockOutput::new
Entry(address, amount) == [address |-> address, amount |-> amount]

\* Hashable for Transaction, then SHA-256: the version byte, then address and
\* amount of every input, then of every output, without any mark between
\* inputs and outputs (the signature is not part of the digest)
Digest(transaction) == transaction.inputs \o transaction.outputs

\* hex strings: a DER signature made with the key of a wallet over a digest,
\* the public key of a wallet, or a string that is neither. The key of a
\* wallet is named by the address it derives (Wallet::calc_address).
SignatureOf(key, digest) == [kind |-> "signature", key |-> key, digest |-> digest]
PublicKeyOf(key) == [kind |-> "public_key", key |-> key, digest |-> <<>>]
Garbage == [kind |-> "garbage", key |-> "", digest |-> <<>>]

\* Transaction::new, through TransactionBuilder::finish(signature)
Transaction(inputs, outputs, signature) ==
    [version |-> "V1", inputs |-> inputs, outputs |-> outputs,
     signature |-> signature]

GenesisBlockSignature ==
    SignatureOf(GenesisBlockAddress, <<Entry(GenesisBlockAddress, GenesisAmount)>>)

\* Chain::genesis_transaction(V1, GENESIS_BLOCK_ADDRESS, 500.0).finish(GENESIS_BLOCK_SIGNATURE)
GenesisTransaction ==
    Transaction(<<>>, <<Entry(GenesisBlockAddress, GenesisAmount)>>,
                GenesisBlockSignature)

\* the transaction a node builds for a request it admits
\* (TransactionHelper::create_transaction), signed by the key of `input`
Transfer(input, output, amount) ==
    LET inputs == <<Entry(input, amount)>>
        outputs == <<Entry(output, IF amount = 0 THEN 0 ELSE amount - Fee),
                     Entry(HostAddress, Fee)>>
    IN  Transaction(inputs, outputs, SignatureOf(input, inputs \o outputs))

\* the transactions of the blocks peers send, in the order the bound MaxTx
\* takes them; a block is deserialized, its amounts are whatever the peer
\* wrote, negative ones included
Transactions ==
    <<Transfer(Alice, Bob, 5), Transfer(Bob, Alice, 0 - 5), Transfer(Bob, Bob, 0),
      Transfer(Alice, Alice, 0), Transfer(Bob, Alice, 5)>>

\* the transactions of the inputs: the first MaxTx of Transactions
InputTransactions ==
    {Transactions[i] : i \in 1..(IF MaxTx < 5 THEN MaxTx ELSE 5)}

\* number of peers (clients and other miners) the model enumerates
MaxPeers == 2

\* longest list of miners a RegisterMiners message carries
MaxList == 2

\* number of pub/sub messages the floodsub layer hands to the node
MaxMessages == 3

\* number of iterations of the client's wait loop
MaxEvents == 3

\* number of messages in flight between two nodes below which an interval elapses
MaxWire == 1

Keys == 0..MaxIndex

\* a hash string that is the Merkle root of nothing (the "0" of the spec's scenario)
BogusHash == <<Transaction(<<>>, <<>>, Garbage)>>

\* SystemTime::now() at block generation; UNIX_EPOCH is 0
Now == 1

VARIABLES
    store,      \* the leveldb database: key -> value, for the keys present
    open,       \* TRUE while the Application (its Chain over the database) exists
    miners,     \* Application::miners, the MiningDatabase
    last,       \* the operation just performed (arguments, result), NoOp between operations
    outbox,     \* messages published on the shared topic by the operation just
                \* performed, in order
    events,     \* the way of the pub/sub payloads into the event loop: the tasks
                \* inject_event spawned, Node::event_receiver, the payloads handled
    client,     \* the client waiting for a result: the locals of its wait loop
    peer,       \* the database of a second node, connected to this one
    wire        \* the messages published by the two nodes and not yet delivered

\* the variables of one node
nodeVars == <<store, open, miners, last, outbox>>

\* the variables of its surroundings
otherVars == <<events, client, peer, wire>>

vars == <<store, open, miners, last, outbox, events, client, peer, wire>>

----------------------------------------------------------------------------
(* Values *)

Some(x) == {x}
None == {}
Unwrap(o) == CHOOSE x \in o : TRUE

Header(previous, merkle_root, created_at) ==
    [version |-> "V010",
     previous_block_header_hash |-> previous,
     merkle_root_hash |-> merkle_root,
     created_at |-> created_at]

Block(index, header, txns) ==
    [index |-> index, header |-> header, txns |-> txns]

\* JabMerkleTree::new(transactions).root_hash()
MerkleRoot(transactions) == transactions

\* serde_json::json!(block).to_string()
ToJson(block) == <<block>>

\* serde_json::from_slice(&payload): Ok(block) or Err
FromSlice(payload) ==
    IF Len(payload) = 1 THEN [ret |-> "Ok", val |-> Some(payload[1])]
    ELSE [ret |-> "Json", val |-> None]

----------------------------------------------------------------------------
(* LevelDbBridge *)

Put(s, key, value) ==
    [k \in (DOMAIN s) \cup {key} |-> IF k = key THEN value ELSE s[k]]

Get(s, key) == IF key \in DOMAIN s THEN Some(s[key]) ELSE None

Delete(s, key) == [k \in (DOMAIN s) \ {key} |-> s[k]]

----------------------------------------------------------------------------
(* BlockchainDatabase *)

PutBlock(s, block) == Put(s, block.index, ToJson(block))

\* the key deleted when the value read at `index` does not deserialize
BadKey(index) == index

\* DbGetBlock without the deletion of the key whose value is bad
DbGetBlockKeepBad(s, index) ==
    LET payload == Get(s, index) IN
    IF payload = None THEN [ret |-> "Ok", val |-> None, store |-> s]
    ELSE LET r == FromSlice(Unwrap(payload)) IN
         IF r.ret = "Ok" THEN [ret |-> "Ok", val |-> r.val, store |-> s]
         ELSE [ret |-> "Json", val |-> None, store |-> s]

\* a result [ret, val, store]: val is the Option<Block> read, store the
\* database after the call (the bad key is deleted on a decoding failure)
DbGetBlock(s, index) ==
    LET payload == Get(s, index) IN
    IF payload = None THEN [ret |-> "Ok", val |-> None, store |-> s]
    ELSE LET r == FromSlice(Unwrap(payload)) IN
         IF r.ret = "Ok" THEN [ret |-> "Ok", val |-> r.val, store |-> s]
         ELSE [ret |-> "Json", val |-> None, store |-> Delete(s, BadKey(index))]

----------------------------------------------------------------------------
(* Chain *)

GenesisBlock ==
    Block(0,
          Header(None, MerkleRoot(<<GenesisTransaction>>), 0),
          GenesisTransaction)

\* Chain::get_block
ChainGetBlock(s, index) == DbGetBlock(s, index)

\* Chain::get_genesis_block: get_block(0).map(|x| x.unwrap())
GetGenesisBlock(s) ==
    LET r == ChainGetBlock(s, 0) IN
    IF r.ret = "Ok" /\ r.val = None
    THEN [ret |-> "Panic", val |-> None, store |-> r.store]
    ELSE r

\* the loop of Chain::get_latest_block, entered at `index` with `block`
RECURSIVE LatestFrom(_, _, _)
LatestFrom(s, index, block) ==
    LET r == ChainGetBlock(s, index) IN
    IF r.ret # "Ok" THEN r
    ELSE IF r.val = None THEN [ret |-> "Ok", val |-> Some(block), store |-> s]
    ELSE LatestFrom(s, index + 1, Unwrap(r.val))

\* Chain::get_latest_block
GetLatestBlock(s) ==
    LET g == GetGenesisBlock(s) IN
    IF g.ret # "Ok" THEN g
    ELSE LatestFrom(s, 1, Unwrap(g.val))

\* BlockIsValid refusing a block whose transaction spends a negative amount
BlockIsValidPositiveInputs(previous_block, b) ==
    /\ previous_block.index < b.index
    /\ b.header.previous_block_header_hash
           = Some(previous_block.header.merkle_root_hash)
    /\ \A i \in 1..Len(b.txns.inputs) : b.txns.inputs[i].amount >= 0

\* BlockIsValid without the comparison of the hashes
BlockIsValidIndexOnly(previous_block, b) ==
    previous_block.index < b.index

\* the acceptance test of Chain::add_block
BlockIsValid(previous_block, b) ==
    /\ previous_block.index < b.index
    /\ b.header.previous_block_header_hash
           = Some(previous_block.header.merkle_root_hash)

\* ChainAddBlock writing the block before it validates it
ChainAddBlockPutFirst(s, b) ==
    LET l == GetLatestBlock(s) IN
    IF l.ret # "Ok" THEN [ret |-> l.ret, store |-> l.store]
    ELSE IF BlockIsValid(Unwrap(l.val), b)
         THEN [ret |-> "Ok", store |-> PutBlock(s, b)]
         ELSE [ret |-> "InvalidBlock", store |-> PutBlock(s, b)]

\* Chain::add_block: a result [ret, store]
ChainAddBlock(s, b) ==
    LET l == GetLatestBlock(s) IN
    IF l.ret # "Ok" THEN [ret |-> l.ret, store |-> l.store]
    ELSE IF BlockIsValid(Unwrap(l.val), b)
         THEN [ret |-> "Ok", store |-> PutBlock(s, b)]
         ELSE [ret |-> "InvalidBlock", store |-> s]

\* the loop of Chain::calc_merkle_root_hash, entered at `index`
RECURSIVE CollectFrom(_, _, _)
CollectFrom(s, index, transactions) ==
    LET r == ChainGetBlock(s, index) IN
    IF r.ret # "Ok" THEN [ret |-> r.ret, val |-> <<>>, store |-> r.store]
    ELSE IF r.val = None
         THEN [ret |-> "Ok", val |-> MerkleRoot(transactions), store |-> s]
         ELSE CollectFrom(s, index + 1, Append(transactions, Unwrap(r.val).txns))

\* Chain::calc_merkle_root_hash
CalcMerkleRootHash(s) == CollectFrom(s, 0, <<>>)

\* GenerateNextBlock with the Merkle root over the stored transactions and the
\* transaction of the new block
GenerateNextBlockOwnRoot(s, transaction) ==
    LET l == GetLatestBlock(s) IN
    IF l.ret # "Ok" THEN l
    ELSE
    LET previous_block == Unwrap(l.val)
        m == CalcMerkleRootHash(s)
    IN
    IF m.ret # "Ok" THEN [ret |-> m.ret, val |-> None, store |-> m.store]
    ELSE
    LET new_block == Block(previous_block.index + 1,
                           Header(Some(previous_block.header.merkle_root_hash),
                                  MerkleRoot(Append(m.val, transaction)), Now),
                           transaction)
        a == ChainAddBlock(s, new_block)
    IN
    IF a.ret # "Ok" THEN [ret |-> a.ret, val |-> None, store |-> a.store]
    ELSE GetLatestBlock(a.store)

\* Chain::generate_next_block: a result [ret, val, store]
GenerateNextBlock(s, transaction) ==
    LET l == GetLatestBlock(s) IN
    IF l.ret # "Ok" THEN l
    ELSE
    LET previous_block == Unwrap(l.val)
        m == CalcMerkleRootHash(s)
    IN
    IF m.ret # "Ok" THEN [ret |-> m.ret, val |-> None, store |-> m.store]
    ELSE
    LET new_block == Block(previous_block.index + 1,
                           Header(Some(previous_block.header.merkle_root_hash),
                                  m.val, Now),
                           transaction)
        a == ChainAddBlock(s, new_block)
    IN
    IF a.ret # "Ok" THEN [ret |-> a.ret, val |-> None, store |-> a.store]
    ELSE GetLatestBlock(a.store)

\* ChainOpen without the genesis bootstrap
ChainOpenNoGenesis(s) ==
    LET r == DbGetBlock(s, 0) IN
    IF r.ret # "Ok" THEN [ret |-> r.ret, store |-> r.store]
    ELSE [ret |-> "Ok", store |-> s]

\* ChainOpen writing the genesis block whatever key 0 holds
ChainOpenAlwaysPut(s) ==
    [ret |-> "Ok", store |-> PutBlock(s, GenesisBlock)]

\* Chain::try_from(path): a result [ret, store]; the Chain exists iff ret is Ok
ChainOpen(s) ==
    LET r == DbGetBlock(s, 0) IN
    IF r.ret # "Ok" THEN [ret |-> r.ret, store |-> r.store]
    ELSE IF r.val = None
         THEN [ret |-> "Ok", store |-> PutBlock(s, GenesisBlock)]
         ELSE [ret |-> "Ok", store |-> s]

----------------------------------------------------------------------------
(* Transaction and the wallet scans of Chain *)

\* Transaction::input_address
InputAddress(transaction) ==
    IF Len(transaction.inputs) = 0 THEN None
    ELSE Some(transaction.inputs[1].address)

\* the sum of the amounts of the entries at address addr
RECURSIVE SumFor(_, _)
SumFor(entries, addr) ==
    IF Len(entries) = 0 THEN 0
    ELSE (IF entries[1].address = addr THEN entries[1].amount ELSE 0)
         + SumFor(Tail(entries), addr)

\* Transaction::amount_spent: zero or negative
AmountSpent(transaction, addr) == 0 - SumFor(transaction.inputs, addr)

\* Transaction::amount_received
AmountReceived(transaction, addr) == SumFor(transaction.outputs, addr)

\* the loop of Chain::wallet_amount, entered at `index`: a result
\* [ret, val, store], val the Option<Decimal>; the assertions of
\* amount_received and amount_spent panic
RECURSIVE WalletAmountFrom(_, _, _, _, _)
WalletAmountFrom(s, index, addr, wallet_amount, wallet_found) ==
    LET r == ChainGetBlock(s, index) IN
    IF r.ret # "Ok" THEN [ret |-> r.ret, val |-> None, store |-> r.store]
    ELSE IF r.val = None
    THEN [ret |-> "Ok", store |-> s,
          val |-> IF wallet_found THEN Some(wallet_amount) ELSE None]
    ELSE LET transaction == Unwrap(r.val).txns IN
         IF InputAddress(transaction) = Some(addr)
         THEN IF \/ AmountReceived(transaction, addr) < 0
                 \/ AmountSpent(transaction, addr) > 0
              THEN [ret |-> "Panic", val |-> None, store |-> s]
              ELSE WalletAmountFrom(s, index + 1, addr,
                       (wallet_amount + AmountReceived(transaction, addr))
                           - AmountSpent(transaction, addr),
                       TRUE)
         ELSE WalletAmountFrom(s, index + 1, addr, wallet_amount, wallet_found)

\* Chain::wallet_amount
WalletAmount(s, addr) == WalletAmountFrom(s, 0, addr, 0, FALSE)

\* the loop of Chain::wallet_exists, entered at `index`: a result
\* [ret, val, store], val the bool
RECURSIVE WalletExistsFrom(_, _, _)
WalletExistsFrom(s, index, addr) ==
    LET r == ChainGetBlock(s, index) IN
    IF r.ret # "Ok" THEN [ret |-> r.ret, val |-> FALSE, store |-> r.store]
    ELSE IF r.val = None THEN [ret |-> "Ok", val |-> FALSE, store |-> s]
    ELSE IF InputAddress(Unwrap(r.val).txns) = Some(addr)
         THEN [ret |-> "Ok", val |-> TRUE, store |-> s]
         ELSE WalletExistsFrom(s, index + 1, addr)

\* Chain::wallet_exists
WalletExists(s, addr) == WalletExistsFrom(s, 0, addr)

\* the transaction names addr in an input or in an output (the input address
\* is the address of the first input)
References(transaction, addr) ==
    \/ InputAddress(transaction) = Some(addr)
    \/ \E i \in 1..Len(transaction.inputs) : transaction.inputs[i].address = addr
    \/ \E i \in 1..Len(transaction.outputs) : transaction.outputs[i].address = addr

\* the scan of Chain::wallet_transactions, entered at `index`: a result
\* [ret, val, store], val the Option<Vec<Transaction>>
RECURSIVE WalletTransactionsFrom(_, _, _, _, _)
WalletTransactionsFrom(s, index, addr, transactions, wallet_found) ==
    LET r == ChainGetBlock(s, index) IN
    IF r.ret # "Ok" THEN [ret |-> r.ret, val |-> None, store |-> r.store]
    ELSE IF r.val = None
    THEN [ret |-> "Ok", store |-> s,
          val |-> IF wallet_found THEN Some(transactions) ELSE None]
    ELSE IF References(Unwrap(r.val).txns, addr)
         THEN WalletTransactionsFrom(s, index + 1, addr,
                                     Append(transactions, Unwrap(r.val).txns), TRUE)
         ELSE WalletTransactionsFrom(s, index + 1, addr, transactions, wallet_found)

\* Chain::wallet_transactions
WalletTransactions(s, addr) == WalletTransactionsFrom(s, 0, addr, <<>>, FALSE)

----------------------------------------------------------------------------
(* Wallet *)

\* Wallet::verify(message, signature, pubkey): PublicKey::from_str(pubkey)?,
\* Signature::from_str(signature)?, then verify_ecdsa. A result [ret, val].
\* (A compressed or uncompressed public key starts with the byte 02, 03 or
\* 04 and a DER signature with 30: no string parses as both.)
WalletVerify(message, signature, pubkey) ==
    IF pubkey.kind # "public_key" THEN [ret |-> "WalletError", val |-> FALSE]
    ELSE IF signature.kind # "signature"
    THEN [ret |-> "WalletError", val |-> FALSE]
    ELSE [ret |-> "Ok",
          val |-> signature.key = pubkey.key /\ signature.digest = message]

----------------------------------------------------------------------------
(* TransactionHelper *)

\* TransactionOptions, as Application::on_transaction fills it from the message
TransactionOptions(transaction_msg) ==
    [input_address |-> transaction_msg.input_address,
     output_address |-> transaction_msg.output_address,
     amount |-> transaction_msg.amount,
     fee |-> Fee,
     signature |-> transaction_msg.signature,
     public_key |-> transaction_msg.public_key]

\* TransactionHelper::check_wallet_amount: a result [ret, store]
CheckWalletAmount(addr, amount, s) ==
    LET w == WalletAmount(s, addr) IN
    IF w.ret = "Panic" THEN [ret |-> "Panic", store |-> w.store]
    ELSE IF w.ret # "Ok" THEN [ret |-> "BlockchainError", store |-> w.store]
    ELSE IF w.val = None THEN [ret |-> "InputWalletNotFound", store |-> w.store]
    ELSE IF Unwrap(w.val) < amount
         THEN [ret |-> "InsufficientBalance", store |-> w.store]
         ELSE [ret |-> "Ok", store |-> w.store]

\* CheckOutput accepting an address no block names as its input address
CheckOutputAnyAddress(addr, s) ==
    LET e == WalletExists(s, addr) IN
    IF e.ret # "Ok" THEN [ret |-> "BlockchainError", store |-> e.store]
    ELSE [ret |-> "Ok", store |-> e.store]

\* TransactionHelper::check_output: a result [ret, store]
CheckOutput(addr, s) ==
    LET e == WalletExists(s, addr) IN
    IF e.ret # "Ok" THEN [ret |-> "BlockchainError", store |-> e.store]
    ELSE IF e.val THEN [ret |-> "Ok", store |-> e.store]
    ELSE [ret |-> "OutputWalletNotFound", store |-> e.store]

\* CheckTransactionSignature accepting every signature
CheckTransactionSignatureAccepting(transaction, pubkey) == "Ok"

\* TransactionHelper::check_transaction_signature(transaction, pubkey)
CheckTransactionSignature(transaction, pubkey) ==
    LET v == WalletVerify(Digest(transaction), transaction.signature, pubkey) IN
    IF v.ret # "Ok" THEN "WalletError"
    ELSE IF v.val THEN "Ok"
    ELSE "InvalidSignature"

\* BuildTransaction giving the output wallet the whole amount, the fee on top
BuildTransactionFeeOnTop(opts, wallet_address) ==
    Transaction(<<Entry(opts.input_address, opts.amount)>>,
                <<Entry(opts.output_address, opts.amount),
                  Entry(wallet_address, opts.fee)>>,
                opts.signature)

\* the transaction TransactionHelper::create_transaction builds
BuildTransaction(opts, wallet_address) ==
    Transaction(<<Entry(opts.input_address, opts.amount)>>,
                <<Entry(opts.output_address,
                        IF opts.amount = 0 THEN 0 ELSE opts.amount - opts.fee),
                  Entry(wallet_address, opts.fee)>>,
                opts.signature)

\* CreateTransaction checking the output wallet before the input wallet
CreateTransactionOutputFirst(opts, wallet_address, s) ==
    IF opts.amount < 0
    THEN [ret |-> "InsufficientBalance", val |-> None, store |-> s]
    ELSE
    LET o == CheckOutput(opts.output_address, s) IN
    IF o.ret # "Ok" THEN [ret |-> o.ret, val |-> None, store |-> o.store]
    ELSE
    LET w == CheckWalletAmount(opts.input_address, opts.amount, o.store) IN
    IF w.ret # "Ok" THEN [ret |-> w.ret, val |-> None, store |-> w.store]
    ELSE
    LET transaction == BuildTransaction(opts, wallet_address)
        v == CheckTransactionSignature(transaction, opts.signature)
    IN
    IF v # "Ok" THEN [ret |-> v, val |-> None, store |-> w.store]
    ELSE [ret |-> "Ok", val |-> Some(transaction), store |-> w.store]

\* TransactionHelper::create_transaction(opts, wallet, blockchain): a result
\* [ret, val, store], val the Option<Transaction>. The signature check is
\* handed opts.signature where its parameter is the public key.
CreateTransaction(opts, wallet_address, s) ==
    IF opts.amount < 0
    THEN [ret |-> "InsufficientBalance", val |-> None, store |-> s]
    ELSE
    LET w == CheckWalletAmount(opts.input_address, opts.amount, s) IN
    IF w.ret # "Ok" THEN [ret |-> w.ret, val |-> None, store |-> w.store]
    ELSE
    LET o == CheckOutput(opts.output_address, w.store) IN
    IF o.ret # "Ok" THEN [ret |-> o.ret, val |-> None, store |-> o.store]
    ELSE
    LET transaction == BuildTransaction(opts, wallet_address)
        v == CheckTransactionSignature(transaction, opts.signature)
    IN
    IF v # "Ok" THEN [ret |-> v, val |-> None, store |-> o.store]
    ELSE [ret |-> "Ok", val |-> Some(transaction), store |-> o.store]

\* From<TransactionRejected> for TransactionErrorCode
ErrorCode(e) ==
    IF e \in {"BlockchainError", "WalletError"} THEN "BLOCKCHAIN_ERROR"
    ELSE IF e = "InputWalletNotFound" THEN "INPUT_WALLET_NOT_FOUND"
    ELSE IF e = "InsufficientBalance" THEN "INSUFFICIENT_BALANCE"
    ELSE IF e = "InvalidSignature" THEN "INVALID_SIGNATURE"
    ELSE "OUTPUT_WALLET_NOT_FOUND"

----------------------------------------------------------------------------
(* MiningDatabase: [miners, last_block_mined_by], miners the sequence of    *)
(* the miners' ids                                                          *)

\* the peer id of the host's node (Node::id)
HostId == "host"

\* MiningDatabase::new(host_miner)
NewMiningDatabase(host_miner) ==
    [miners |-> <<host_miner>>, last_block_mined_by |-> None]

\* MiningDatabase::miner_exists
MinerExists(db, id) == \E i \in 1..Len(db.miners) : db.miners[i] = id

\* MiningDatabase::index_of: the Option of the 0-based index of the first
\* miner with that id
IndexOf(db, id) ==
    IF MinerExists(db, id)
    THEN Some((CHOOSE i \in 1..Len(db.miners) :
                  /\ db.miners[i] = id
                  /\ \A j \in 1..(i - 1) : db.miners[j] # id) - 1)
    ELSE None

\* MiningDatabase::at
At(db, index) ==
    IF index < Len(db.miners) THEN Some(db.miners[index + 1]) ELSE None

\* MiningDatabase::last_block_mined_by: the pointer, if that miner is known
LastBlockMinedBy(db) ==
    {id \in db.last_block_mined_by : MinerExists(db, id)}

\* RegisterMiner pushing the miner without looking for its id
RegisterMinerAlways(db, miner) ==
    [db EXCEPT !.miners = Append(db.miners, miner)]

\* MiningDatabase::register_miner
RegisterMiner(db, miner) ==
    IF ~MinerExists(db, miner)
    THEN [db EXCEPT !.miners = Append(db.miners, miner)]
    ELSE db

\* Vec::remove(index), index 0-based
Remove(seq, index) ==
    SubSeq(seq, 1, index) \o SubSeq(seq, index + 2, Len(seq))

\* MiningDatabase::unregister_miner
UnregisterMiner(db, id) ==
    IF IndexOf(db, id) # None
    THEN [db EXCEPT !.miners = Remove(db.miners, Unwrap(IndexOf(db, id)))]
    ELSE db

\* MiningDatabase::set_last_block_miner: a result [ret, db]; at(index).unwrap()
\* panics on an empty roster
SetLastBlockMiner(db) ==
    LET last_block_miner == LastBlockMinedBy(db)
        new_index == IF last_block_miner = None THEN 0
                     ELSE Unwrap(IndexOf(db, Unwrap(last_block_miner)))
        index == IF last_block_miner = None THEN 0
                 ELSE IF new_index + 1 > Len(db.miners) - 1 THEN 0
                 ELSE new_index + 1
    IN
    IF At(db, index) = None THEN [ret |-> "Panic", db |-> db]
    ELSE IF MinerExists(db, Unwrap(At(db, index)))
         THEN [ret |-> "Ok",
               db |-> [db EXCEPT !.last_block_mined_by = At(db, index)]]
         ELSE [ret |-> "Ok", db |-> db]

\* MiningDatabase::host: miners.get(0).unwrap()
Host(db) ==
    IF Len(db.miners) = 0 THEN [ret |-> "Panic", val |-> None]
    ELSE [ret |-> "Ok", val |-> Some(db.miners[1])]

----------------------------------------------------------------------------
(* Messages and topics *)

\* the shared floodsub topic of Node::init
SharedTopic == "jab"

\* Publish sending the message on a topic of its own
PublishOffTopic(message) == [topic |-> "other", message |-> message]

\* Node::publish(message): the message goes out on the shared topic
Publish(message) == [topic |-> SharedTopic, message |-> message]

\* Node::send(peer_id, message): the message goes out on the topic named by
\* the peer id
Send(peer_id, message) == [topic |-> peer_id, message |-> message]

\* a Msg: its type tag and the fields of its payload
Msg(type, index, block, status, code, roster) ==
    [type |-> type, index |-> index, block |-> block, status |-> status,
     code |-> code, miners |-> roster]

\* Msg::request_block(index)
MsgRequestBlock(index) ==
    Msg("REQUEST_BLOCK", Some(index), None, None, None, <<>>)

\* Msg::block(block)
MsgBlock(block) ==
    Msg("BLOCK", None, Some(block), None, None, <<>>)

\* Msg::register_miners(miners)
MsgRegisterMiners(roster) ==
    Msg("REGISTER_MINERS", None, None, None, None, roster)

\* Msg::request_registered_miners()
MsgRequestRegisteredMiners ==
    Msg("REQUEST_REGISTERED_MINERS", None, None, None, None, <<>>)

\* Msg::transaction_result_ok()
MsgTransactionResultOk ==
    Msg("TRANSACTION_RESULT", None, None, Some("OK"), None, <<>>)

\* Msg::transaction_result_nok(code, description)
MsgTransactionResultNok(code) ==
    Msg("TRANSACTION_RESULT", None, None, Some("NOK"), Some(code), <<>>)

\* Msg::transaction(peer_id, input_address, output_address, amount, public_key, signature)
MsgTransaction(peer_id, input_address, output_address, amount, public_key, signature) ==
    [peer_id |-> peer_id, input_address |-> input_address,
     output_address |-> output_address, amount |-> amount,
     public_key |-> public_key, signature |-> signature]

\* Msg::wallet_details(peer_id, address)
MsgWalletDetails(peer_id, address) == [peer_id |-> peer_id, address |-> address]

\* Msg::wallet_details_result_ok(address, transactions, balance)
MsgWalletDetailsResultOk(address, transactions, balance) ==
    [type |-> "WALLET_DETAILS_RESULT", status |-> Some("OK"), code |-> None,
     address |-> Some(address), transactions |-> transactions,
     balance |-> Some(balance)]

\* Msg::wallet_details_result_error(error)
MsgWalletDetailsResultError(error) ==
    [type |-> "WALLET_DETAILS_RESULT", status |-> Some("ERROR"),
     code |-> Some(error), address |-> None, transactions |-> <<>>,
     balance |-> None]

\* get_next_block requesting the index of the latest block itself
GetNextBlockLatestIndex(s) ==
    LET l == GetLatestBlock(s) IN
    IF l.ret = "Ok"
    THEN [ret |-> "Ok", store |-> l.store,
          out |-> <<Publish(MsgRequestBlock(Unwrap(l.val).index))>>]
    ELSE [ret |-> l.ret, store |-> l.store, out |-> <<>>]

\* Application::get_next_block: a result [store, out]
GetNextBlock(s) ==
    LET l == GetLatestBlock(s) IN
    IF l.ret = "Ok"
    THEN [ret |-> "Ok", store |-> l.store,
          out |-> <<Publish(MsgRequestBlock(Unwrap(l.val).index + 1))>>]
    ELSE [ret |-> l.ret, store |-> l.store, out |-> <<>>]

\* Application::on_transaction once generate_next_block returned g, the
\* roster being db: the reply sent and the block published
ReplyGenerated(transaction_msg, g, db) ==
    IF g.ret = "Panic"
    THEN [ret |-> "Panic", store |-> g.store, db |-> db, out |-> <<>>]
    ELSE IF g.ret # "Ok"
    THEN [ret |-> "BlockchainError", store |-> g.store, db |-> db,
          out |-> <<Send(transaction_msg.peer_id,
                         MsgTransactionResultNok(ErrorCode("BlockchainError")))>>]
    ELSE [ret |-> "Ok", store |-> g.store, db |-> db,
          out |-> <<Send(transaction_msg.peer_id, MsgTransactionResultOk),
                    Publish(MsgBlock(Unwrap(g.val)))>>]

\* Application::on_transaction once create_transaction returned c and
\* set_last_block_miner, if it is reached, returns m
ReplyCreated(transaction_msg, c, db, m) ==
    IF c.ret = "Panic"
    THEN [ret |-> "Panic", store |-> c.store, db |-> db, out |-> <<>>]
    ELSE IF c.ret # "Ok"
    THEN [ret |-> c.ret, store |-> c.store, db |-> db,
          out |-> <<Send(transaction_msg.peer_id,
                         MsgTransactionResultNok(ErrorCode(c.ret)))>>]
    ELSE IF m.ret = "Panic"
    THEN [ret |-> "Panic", store |-> c.store, db |-> db, out |-> <<>>]
    ELSE ReplyGenerated(transaction_msg,
                        GenerateNextBlock(c.store, Unwrap(c.val)), m.db)

\* HandleTransaction generating the block before it runs the admission checks
HandleTransactionMineFirst(transaction_msg, s, db) ==
    LET opts == TransactionOptions(transaction_msg)
        g == GenerateNextBlock(s, BuildTransaction(opts, HostAddress))
        c == CreateTransaction(opts, HostAddress, g.store)
    IN
    IF c.ret # "Ok"
    THEN [ret |-> c.ret, store |-> c.store, db |-> db,
          out |-> <<Send(transaction_msg.peer_id,
                         MsgTransactionResultNok(ErrorCode(c.ret)))>>]
    ELSE [ret |-> "Ok", store |-> c.store, db |-> SetLastBlockMiner(db).db,
          out |-> <<Send(transaction_msg.peer_id, MsgTransactionResultOk),
                    Publish(MsgBlock(Unwrap(g.val)))>>]

\* the balance loop of on_wallet_details_query over the transactions left,
\* balance -= amount_spent then balance += amount_received for each: a result
\* [ret, val]; the assertions of amount_spent and amount_received panic
RECURSIVE WalletBalance(_, _, _)
WalletBalance(transactions, addr, balance) ==
    IF Len(transactions) = 0 THEN [ret |-> "Ok", val |-> balance]
    ELSE IF \/ AmountSpent(transactions[1], addr) > 0
            \/ AmountReceived(transactions[1], addr) < 0
    THEN [ret |-> "Panic", val |-> balance]
    ELSE WalletBalance(Tail(transactions), addr,
                       (balance - AmountSpent(transactions[1], addr))
                           + AmountReceived(transactions[1], addr))

\* the arms of the match of on_wallet_details_query on the result w of
\* wallet_transactions, b the balance loop on the transactions found
ReplyWalletDetails(query, w, b) ==
    IF w.ret # "Ok"
    THEN [ret |-> "BlockchainError", store |-> w.store,
          out |-> <<Send(query.peer_id,
                         MsgWalletDetailsResultError("BLOCKCHAIN_ERROR"))>>]
    ELSE IF w.val = None
    THEN [ret |-> "WalletNotFound", store |-> w.store,
          out |-> <<Send(query.peer_id,
                         MsgWalletDetailsResultError("WALLET_NOT_FOUND"))>>]
    ELSE IF b.ret = "Panic"
    THEN [ret |-> "Panic", store |-> w.store, out |-> <<>>]
    ELSE [ret |-> "Ok", store |-> w.store,
          out |-> <<Send(query.peer_id,
                         MsgWalletDetailsResultOk(query.address, Unwrap(w.val),
                                                  b.val))>>]

\* the balance loop on the transactions of the result w of wallet_transactions
BalanceOf(w, addr) ==
    IF w.ret = "Ok" /\ w.val # None THEN WalletBalance(Unwrap(w.val), addr, 0)
    ELSE [ret |-> "Ok", val |-> 0]

\* Application::on_wallet_details_query(query) on the chain store s: a result
\* [ret, store, out], out the messages sent
HandleWalletDetailsQuery(query, s) ==
    ReplyWalletDetails(query, WalletTransactions(s, query.address),
                       BalanceOf(WalletTransactions(s, query.address),
                                 query.address))

\* Application::on_transaction(transaction_msg) on the chain store s and the
\* roster db: a result [ret, store, db, out], out the messages sent, in order
HandleTransaction(transaction_msg, s, db) ==
    ReplyCreated(transaction_msg,
                 CreateTransaction(TransactionOptions(transaction_msg),
                                   HostAddress, s),
                 db, SetLastBlockMiner(db))

\* Application::handle_swarm_event(event) on the roster db: the roster after it
HandleSwarmEvent(db, event) ==
    IF event.type = "ConnectionClosed" THEN UnregisterMiner(db, event.peer_id)
    ELSE db

\* the fold of Application::on_register_miners
RECURSIVE RegisterMiners(_, _)
RegisterMiners(db, roster) ==
    IF Len(roster) = 0 THEN db
    ELSE RegisterMiners(RegisterMiner(db, Head(roster)), Tail(roster))

----------------------------------------------------------------------------
(* Inputs *)

\* the blocks a store holds: the values that deserialize
StoredBlocks(s) == {s[k][1] : k \in {i \in DOMAIN s : Len(s[i]) = 1}}

\* the transactions of the blocks stored at 0, 1, ... up to the first gap
RECURSIVE PrefixTransactions(_, _)
PrefixTransactions(s, index) ==
    IF index \in DOMAIN s /\ Len(s[index]) = 1
    THEN <<s[index][1].txns>> \o PrefixTransactions(s, index + 1)
    ELSE <<>>

\* previous-block hashes a peer's block may carry: the roots of the blocks
\* the host has stored, and a hash that is none of them
PreviousHashInputs(s) ==
    {BogusHash} \cup {b.header.merkle_root_hash : b \in StoredBlocks(s)}

\* Merkle roots a peer's block may carry: the root over the host's
\* transaction history (what generate_next_block would compute on the same
\* chain), and a hash that is not
MerkleRootInputs(s) ==
    {BogusHash, MerkleRoot(PrefixTransactions(s, 0))}

\* the previous_block_header_hash values of the blocks handed to the chain
PreviousInputs(s) == {None} \cup {Some(h) : h \in PreviousHashInputs(s)}

\* the ids of the peers, in the order the bound MaxPeers takes them
PeerList == <<"peer1", "peer2", "peer3", "peer4">>

PeerIds == {PeerList[i] : i \in 1..(IF MaxPeers < 4 THEN MaxPeers ELSE 4)}

\* the ids a miner or a closed connection may carry
MinerIds == {HostId} \cup PeerIds

\* the lists of miners of the RegisterMiners messages: any ids, repeated or
\* not, the host's own included
Rosters == UNION {[1..n -> MinerIds] : n \in 0..MaxList}

\* the fields of the Transaction requests
RequestAddresses == {Alice, Bob}
RequestAmounts == {0 - 1, 0, 5, 6}
RequestPublicKeys == {PublicKeyOf(Alice), Garbage}

\* the signature of a request: made by Alice's key over the transaction the
\* node builds for the request ("node"), made by Alice's key over the
\* transaction App::make_transaction of the client builds, whose only output
\* is (output_address, amount) ("client"), or a string that is no signature
RequestSignature(choice, input_address, output_address, amount) ==
    IF choice = "node"
    THEN SignatureOf(Alice, Digest(Transfer(input_address, output_address, amount)))
    ELSE IF choice = "client"
    THEN SignatureOf(Alice, <<Entry(input_address, amount),
                              Entry(output_address, amount)>>)
    ELSE Garbage

\* the Transaction messages clients send
TransactionRequests ==
    {MsgTransaction(p, i, o, a, k, RequestSignature(c, i, o, a)) :
        p \in PeerIds, i \in RequestAddresses, o \in RequestAddresses,
        a \in RequestAmounts, k \in RequestPublicKeys,
        c \in {"node", "client", "garbage"}}

\* the WalletDetails queries
WalletQueries ==
    {MsgWalletDetails(p, a) : p \in PeerIds, a \in RequestAddresses \cup {HostAddress}}

\* the swarm events that reach handle_swarm_event: their kind and the peer
SwarmEvents ==
    [type : {"ConnectionEstablished", "ConnectionClosed"}, peer_id : PeerIds]

\* the TransactionResult and WalletDetailsResult messages that reach a node
ResultMessages ==
    {MsgTransactionResultOk, MsgWalletDetailsResultError("WALLET_NOT_FOUND")}

\* the database directory before the first open: any keys may hold bytes that
\* do not deserialize (an empty directory included)
InitialStores ==
    UNION {[K -> {<<>>}] : K \in SUBSET Keys}

\* the record of an operation: its name, its result (Ok or the error), the
\* block, index or transaction it was called with and the block it returned
Op(op, ret, block, index, txn, val) ==
    [op |-> op, ret |-> ret, block |-> block, index |-> index,
     txn |-> txn, val |-> val, msg |-> None, id |-> None, roster |-> <<>>]

\* no operation is in progress: the caller (the event loop) is between two events
NoOp == Op("none", "Ok", None, None, None, None)

Idle == last = NoOp

----------------------------------------------------------------------------
(* Operations *)

\* no payload has arrived yet
NoEvents ==
    [injected |-> <<>>, spawned |-> {}, receiver |-> <<>>, handled |-> <<>>]

\* no client is waiting: the state of the client before it calls
\* wait_for_transaction_result or wait_for_wallet_query_result
NoClient ==
    [waiting |-> "none", msg |-> "none", should_publish_transaction |-> FALSE,
     seen |-> <<>>, published |-> <<>>, returned |-> {}]

\* no second node is connected
NoPeer == <<>>

\* no message is on its way between the two nodes
NoWire == [toA |-> <<>>, toB |-> <<>>]

Init ==
    /\ store \in InitialStores
    /\ open = FALSE
    /\ miners = NewMiningDatabase(HostId)
    /\ last = NoOp
    /\ outbox = <<>>
    /\ events = NoEvents
    /\ client = NoClient
    /\ peer = NoPeer
    /\ wire = NoWire

\* Chain::try_from(path), at Application::init
Open ==
    /\ Idle
    /\ ~open
    /\ \E r \in {ChainOpen(store)} :
        /\ store' = r.store
        /\ open' = (r.ret = "Ok")
        /\ last' = Op("open", r.ret, None, None, None, None)
    /\ miners' = NewMiningDatabase(HostId)
    /\ outbox' = <<>>
    /\ UNCHANGED otherVars

\* the process exits: the Chain value is dropped, the database stays on disk
Close ==
    /\ Idle
    /\ open
    /\ open' = FALSE
    /\ last' = Op("close", "Ok", None, None, None, None)
    /\ outbox' = <<>>
    /\ UNCHANGED <<store, miners>>
    /\ UNCHANGED otherVars

\* Chain::add_block(b)
AddBlock(b) ==
    /\ Idle
    /\ open
    /\ \E r \in {ChainAddBlock(store, b)} :
        /\ store' = r.store
        /\ open' = (r.ret # "Panic")
        /\ last' = Op("add_block", r.ret, Some(b), None, None, None)
    /\ outbox' = <<>>
    /\ UNCHANGED miners
    /\ UNCHANGED otherVars

\* Chain::get_block(index)
GetBlock(index) ==
    /\ Idle
    /\ open
    /\ \E r \in {ChainGetBlock(store, index)} :
        /\ store' = r.store
        /\ last' = Op("get_block", r.ret, None, Some(index), None, r.val)
    /\ outbox' = <<>>
    /\ UNCHANGED <<open, miners>>
    /\ UNCHANGED otherVars

\* Chain::get_genesis_block(); a panic ends the process
GetGenesis ==
    /\ Idle
    /\ open
    /\ \E r \in {GetGenesisBlock(store)} :
        /\ store' = r.store
        /\ open' = (r.ret # "Panic")
        /\ last' = Op("get_genesis_block", r.ret, None, None, None, r.val)
    /\ outbox' = <<>>
    /\ UNCHANGED miners
    /\ UNCHANGED otherVars

\* Chain::generate_next_block(transaction); the guard caps the chain length
GenerateNext(transaction) ==
    /\ Idle
    /\ open
    /\ \E l \in {GetLatestBlock(store)} :
        l.ret = "Ok" => Unwrap(l.val).index < MaxIndex
    /\ \E r \in {GenerateNextBlock(store, transaction)} :
        /\ store' = r.store
        /\ open' = (r.ret # "Panic")
        /\ last' = Op("generate_next_block", r.ret, None, None, Some(transaction), r.val)
    /\ outbox' = <<>>
    /\ UNCHANGED miners
    /\ UNCHANGED otherVars

\* Application::on_block_received(block): Chain::add_block(block), whose result
\* is recorded in last.ret, then get_next_block()
OnBlockReceived(b) ==
    /\ Idle
    /\ open
    /\ \E a \in {ChainAddBlock(store, b)} : \E n \in {GetNextBlock(a.store)} :
        /\ store' = n.store
        /\ open' = (a.ret # "Panic" /\ n.ret # "Panic")
        /\ last' = Op("on_block_received", a.ret, Some(b), None, None, None)
        /\ outbox' = n.out
    /\ UNCHANGED miners
    /\ UNCHANGED otherVars

\* Application::on_block_requested(requested_block)
OnBlockRequested(index) ==
    /\ Idle
    /\ open
    /\ \E r \in {ChainGetBlock(store, index)} :
        /\ store' = r.store
        /\ last' = Op("on_block_requested", r.ret, None, Some(index), None, r.val)
        /\ outbox' = IF r.ret = "Ok" /\ r.val # None
                     THEN <<Publish(MsgBlock(Unwrap(r.val)))>> ELSE <<>>
    /\ UNCHANGED <<open, miners>>
    /\ UNCHANGED otherVars

\* Application::on_get_next_block_tick()
OnGetNextBlockTick ==
    /\ Idle
    /\ open
    /\ \E n \in {GetNextBlock(store)} :
        /\ store' = n.store
        /\ open' = (n.ret # "Panic")
        /\ last' = Op("on_get_next_block_tick", n.ret, None, None, None, None)
        /\ outbox' = n.out
    /\ UNCHANGED miners
    /\ UNCHANGED otherVars

\* Application::on_transaction(transaction_msg)
OnTransaction(transaction_msg) ==
    /\ Idle
    /\ open
    /\ \E r \in {HandleTransaction(transaction_msg, store, miners)} :
        /\ store' = r.store
        /\ miners' = r.db
        /\ open' = (r.ret # "Panic")
        /\ last' = [Op("on_transaction", r.ret, None, None, None, None)
                        EXCEPT !.msg = Some(transaction_msg)]
        /\ outbox' = r.out
    /\ UNCHANGED otherVars

\* Application::on_wallet_details_query(query)
OnWalletDetailsQuery(query) ==
    /\ Idle
    /\ open
    /\ \E r \in {HandleWalletDetailsQuery(query, store)} :
        /\ store' = r.store
        /\ open' = (r.ret # "Panic")
        /\ last' = [Op("on_wallet_details_query", r.ret, None, None, None, None)
                        EXCEPT !.msg = Some(query)]
        /\ outbox' = r.out
    /\ UNCHANGED miners
    /\ UNCHANGED otherVars

\* MiningDatabase::register_miner(miner)
RegisterMinerCall(miner) ==
    /\ Idle
    /\ open
    /\ miners' = RegisterMiner(miners, miner)
    /\ last' = [Op("register_miner", "Ok", None, None, None, None)
                    EXCEPT !.id = Some(miner)]
    /\ outbox' = <<>>
    /\ UNCHANGED <<store, open>>
    /\ UNCHANGED otherVars

\* MiningDatabase::unregister_miner(id)
UnregisterMinerCall(id) ==
    /\ Idle
    /\ open
    /\ miners' = UnregisterMiner(miners, id)
    /\ last' = [Op("unregister_miner", "Ok", None, None, None, None)
                    EXCEPT !.id = Some(id)]
    /\ outbox' = <<>>
    /\ UNCHANGED <<store, open>>
    /\ UNCHANGED otherVars

\* MiningDatabase::set_last_block_miner(); a panic ends the process
SetLastBlockMinerCall ==
    /\ Idle
    /\ open
    /\ \E r \in {SetLastBlockMiner(miners)} :
        /\ miners' = r.db
        /\ open' = (r.ret # "Panic")
        /\ last' = Op("set_last_block_miner", r.ret, None, None, None, None)
    /\ outbox' = <<>>
    /\ UNCHANGED store
    /\ UNCHANGED otherVars

\* MiningDatabase::host(); a panic ends the process
HostCall ==
    /\ Idle
    /\ open
    /\ \E r \in {Host(miners)} :
        /\ open' = (r.ret # "Panic")
        /\ last' = [Op("host", r.ret, None, None, None, None)
                        EXCEPT !.id = r.val]
    /\ outbox' = <<>>
    /\ UNCHANGED <<store, miners>>
    /\ UNCHANGED otherVars

\* Application::on_register_miners(miners)
OnRegisterMiners(roster) ==
    /\ Idle
    /\ open
    /\ miners' = RegisterMiners(miners, roster)
    /\ last' = [Op("on_register_miners", "Ok", None, None, None, None)
                    EXCEPT !.roster = roster]
    /\ outbox' = <<>>
    /\ UNCHANGED <<store, open>>
    /\ UNCHANGED otherVars

\* Application::on_registered_miners_requested()
OnRegisteredMinersRequested ==
    /\ Idle
    /\ open
    /\ last' = Op("on_registered_miners_requested", "Ok", None, None, None, None)
    /\ outbox' = <<Publish(MsgRegisterMiners(miners.miners))>>
    /\ UNCHANGED <<store, open, miners>>
    /\ UNCHANGED otherVars

\* Application::handle_swarm_event(ConnectionClosed { peer_id, .. })
OnConnectionClosed(peer_id) ==
    /\ Idle
    /\ open
    /\ miners' = UnregisterMiner(miners, peer_id)
    /\ last' = [Op("on_connection_closed", "Ok", None, None, None, None)
                    EXCEPT !.id = Some(peer_id)]
    /\ outbox' = <<>>
    /\ UNCHANGED <<store, open>>
    /\ UNCHANGED otherVars

\* Application::handle_swarm_event(event)
OnSwarmEvent(event) ==
    /\ Idle
    /\ open
    /\ miners' = HandleSwarmEvent(miners, event)
    /\ last' = [Op("on_swarm_event", "Ok", None, None, None, None)
                    EXCEPT !.msg = Some(event)]
    /\ outbox' = <<>>
    /\ UNCHANGED <<store, open>>
    /\ UNCHANGED otherVars

\* Application::handle_message(message) for a TransactionResult or a
\* WalletDetailsResult: the arm logs and returns
OnResultMessage(message) ==
    /\ Idle
    /\ open
    /\ message.type \in {"TRANSACTION_RESULT", "WALLET_DETAILS_RESULT"}
    /\ last' = [Op("on_result_message", "Ok", None, None, None, None)
                    EXCEPT !.msg = Some(message)]
    /\ outbox' = <<>>
    /\ UNCHANGED <<store, open, miners>>
    /\ UNCHANGED otherVars

\* the operation has returned to its caller: Application::run loops back to
\* its select, the messages published are on their way
Return ==
    /\ ~Idle
    /\ last' = NoOp
    /\ outbox' = <<>>
    /\ UNCHANGED <<store, open, miners>>
    /\ UNCHANGED otherVars

\* the blocks a caller or a peer may hand to the chain holding store s
BlockInputs(s) ==
    {Block(i, Header(p, m, Now), t) :
        i \in Keys, p \in PreviousInputs(s),
        m \in MerkleRootInputs(s), t \in InputTransactions}

\* the chain engine and its callers: the operations of Chain and the
\* handlers of the block messages
Next ==
    \/ Open
    \/ Close
    \/ \E b \in BlockInputs(store) : AddBlock(b)
    \/ \E i \in Keys : GetBlock(i)
    \/ GetGenesis
    \/ \E t \in InputTransactions : GenerateNext(t)
    \/ \E b \in BlockInputs(store) : OnBlockReceived(b)
    \/ \E i \in Keys : OnBlockRequested(i)
    \/ OnGetNextBlockTick
    \/ Return

Spec == Init /\ [][Next]_vars

\* the node seen from the network: the handlers of the messages peers and
\* clients send, and the interval tick
NodeNext ==
    \/ Open
    \/ Close
    \/ \E b \in BlockInputs(store) : OnBlockReceived(b)
    \/ \E i \in Keys : OnBlockRequested(i)
    \/ OnGetNextBlockTick
    \/ \E m \in TransactionRequests : OnTransaction(m)
    \/ \E q \in WalletQueries : OnWalletDetailsQuery(q)
    \/ Return

NodeSpec == Init /\ [][NodeNext]_vars

\* the node seen from its peers: the handlers of the block messages, of the
\* swarm events and of the result messages that reach a node
PeersNext ==
    \/ Open
    \/ Close
    \/ \E b \in BlockInputs(store) : OnBlockReceived(b)
    \/ \E i \in Keys : OnBlockRequested(i)
    \/ \E e \in SwarmEvents : OnSwarmEvent(e)
    \/ \E m \in ResultMessages : OnResultMessage(m)
    \/ Return

PeersSpec == Init /\ [][PeersNext]_vars

\* the node seen from its miners database: the operations of MiningDatabase
\* and the handlers that call them, over a chain nobody writes to
MinersNext ==
    \/ Open
    \/ Close
    \/ \E id \in MinerIds : RegisterMinerCall(id)
    \/ \E id \in MinerIds : UnregisterMinerCall(id)
    \/ SetLastBlockMinerCall
    \/ HostCall
    \/ \E roster \in Rosters : OnRegisterMiners(roster)
    \/ OnRegisteredMinersRequested
    \/ \E id \in MinerIds : OnConnectionClosed(id)
    \/ Return

MinersSpec == Init /\ [][MinersNext]_vars

\* the miners database under callers that keep calling set_last_block_miner:
\* a started operation returns, and set_last_block_miner is called again and
\* again whatever else is called in between
MinersFairSpec ==
    /\ Init
    /\ [][MinersNext]_vars
    /\ WF_vars(Return)
    /\ SF_vars(SetLastBlockMinerCall)

-----------------------------------------------------------------------------
(* The path of a pub/sub message from floodsub to the event loop *)

\* the floodsub messages: the peer that published and whether the payload
\* deserializes as a Msg
FloodsubMessages == [source : PeerIds, decoded : BOOLEAN]

\* NetworkBehaviourEventProcess<FloodsubEvent>::inject_event(message): the
\* payload is decoded and a task is spawned that will send the result on the
\* event channel. events.injected lists the messages in the order floodsub
\* handed them over; a message is named by its position in it.
InjectEvent(message) ==
    /\ Len(events.injected) < MaxMessages
    /\ events' = [events EXCEPT
                    !.injected = Append(@, message),
                    !.spawned = @ \cup {Len(events.injected) + 1}]
    /\ UNCHANGED <<nodeVars, client, peer, wire>>

\* a spawned task runs: ev_sender.send(message).await puts its message on the
\* event channel; the runtime runs the spawned tasks in any order
SenderTask(i) ==
    /\ i \in events.spawned
    /\ events' = [events EXCEPT
                    !.spawned = @ \ {i},
                    !.receiver = Append(@, i)]
    /\ UNCHANGED <<nodeVars, client, peer, wire>>

\* the event_receiver.next() arm of the select of Application::run: the head
\* of the channel becomes AppEvent::Message when it decoded (handle_message
\* is called with it), AppEvent::None otherwise
ReceiveEvent ==
    /\ events.receiver # <<>>
    /\ events' = [events EXCEPT
                    !.receiver = Tail(@),
                    !.handled =
                        IF events.injected[Head(events.receiver)].decoded
                        THEN Append(@, Head(events.receiver)) ELSE @]
    /\ UNCHANGED <<nodeVars, client, peer, wire>>

DeliveryNext ==
    \/ \E message \in FloodsubMessages : InjectEvent(message)
    \/ \E i \in 1..MaxMessages : SenderTask(i)
    \/ ReceiveEvent

DeliverySpec == Init /\ [][DeliveryNext]_vars

-----------------------------------------------------------------------------
(* The client waiting for the result of its request *)

\* the swarm events that make the client publish its request
ConnectionEvents == {"ConnectionEstablished", "ConnectionClosed"}

\* what one select of the wait loop may yield: a swarm event, or an item of
\* the event channel (a message of some type, or a payload that did not decode)
ClientEvents ==
    [arm : {"swarm"}, kind : ConnectionEvents \cup {"NewListenAddr"}]
        \cup [arm : {"message"},
              kind : {"TRANSACTION_RESULT", "WALLET_DETAILS_RESULT", "undecodable"}]

\* the select of the wait loop: a ConnectionEstablished or ConnectionClosed
\* swarm event sets should_publish_transaction
Select(c, event) ==
    [c EXCEPT !.seen = Append(@, event),
              !.should_publish_transaction =
                  @ \/ (event.arm = "swarm" /\ event.kind \in ConnectionEvents)]

\* if should_publish_transaction { node.publish(msg.clone()); the flag is reset }
\* (Node::publish always returns Ok); a publication is recorded with the
\* iteration it was made in
PublishIfAsked(c) ==
    IF c.should_publish_transaction
    THEN [c EXCEPT !.published = Append(@, [at |-> Len(c.seen), message |-> c.msg]),
                   !.should_publish_transaction = FALSE]
    ELSE c

\* if let Some(event) = event { return Ok(event) }: the event is Some for a
\* message of the type waited for
ReturnIfResult(c, event) ==
    IF event.arm = "message" /\ event.kind = c.waiting
    THEN [c EXCEPT !.returned = Some(event)]
    ELSE c

\* the wait loop publishing in every iteration that follows a connection event
\* (the flag is never reset)
WaitIterationFlagKept(c, event) ==
    ReturnIfResult(
        [PublishIfAsked(Select(c, event)) EXCEPT
            !.should_publish_transaction = Select(c, event).should_publish_transaction],
        event)

\* one iteration of the loop of App::wait_for_transaction_result and
\* App::wait_for_wallet_query_result
WaitIteration(c, event) ==
    ReturnIfResult(PublishIfAsked(Select(c, event)), event)

\* App::wait_for_transaction_result(node, msg) is called
WaitForTransactionResult ==
    /\ client = NoClient
    /\ client' = [NoClient EXCEPT !.waiting = "TRANSACTION_RESULT",
                                  !.msg = "TRANSACTION"]
    /\ UNCHANGED <<nodeVars, events, peer, wire>>

\* App::wait_for_wallet_query_result(node, msg) is called
WaitForWalletQueryResult ==
    /\ client = NoClient
    /\ client' = [NoClient EXCEPT !.waiting = "WALLET_DETAILS_RESULT",
                                  !.msg = "WALLET_DETAILS"]
    /\ UNCHANGED <<nodeVars, events, peer, wire>>

\* one iteration of the wait loop, until the function has returned
ClientLoop(event) ==
    /\ client.waiting # "none"
    /\ client.returned = None
    /\ Len(client.seen) < MaxEvents
    /\ client' = WaitIteration(client, event)
    /\ UNCHANGED <<nodeVars, events, peer, wire>>

ClientNext ==
    \/ WaitForTransactionResult
    \/ WaitForWalletQueryResult
    \/ \E event \in ClientEvents : ClientLoop(event)

ClientSpec == Init /\ [][ClientNext]_vars

-----------------------------------------------------------------------------
(* Two connected nodes: this node (B) and a peer (A) with a longer chain *)

\* a node: its chain and its miners database
NodeOf(s, db) == [store |-> s, miners |-> db]

\* the messages of the publications `out`, in order
RECURSIVE Messages(_)
Messages(out) ==
    IF Len(out) = 0 THEN <<>> ELSE <<out[1].message>> \o Messages(Tail(out))

\* send_miner_requests asking for the rosters before it sends its own
SendMinerRequestsRequestFirst(db) ==
    <<Publish(MsgRequestRegisteredMiners), Publish(MsgRegisterMiners(db.miners))>>

\* Application::send_miner_requests: the node's roster, then the request for
\* the rosters of the others
SendMinerRequests(db) ==
    <<Publish(MsgRegisterMiners(db.miners)), Publish(MsgRequestRegisteredMiners)>>

\* the tick arm of Application::run once get_next_block returned n
Ticked(node, n) ==
    [store |-> n.store, miners |-> node.miners,
     out |-> n.out \o (IF Len(node.miners.miners) = 1
                       THEN SendMinerRequests(node.miners) ELSE <<>>)]

\* the poll_interval.tick() arm of Application::run: a result [store, miners, out]
Tick(node) == Ticked(node, GetNextBlock(node.store))

\* Application::on_block_received once get_next_block returned n
BlockReceived(node, n) ==
    [store |-> n.store, miners |-> node.miners, out |-> n.out]

\* Application::on_block_requested once get_block returned r
BlockRequested(node, r) ==
    [store |-> r.store, miners |-> node.miners,
     out |-> IF r.ret = "Ok" /\ r.val # None
             THEN <<Publish(MsgBlock(Unwrap(r.val)))>> ELSE <<>>]

\* Application::handle_message(message) at a node: a result [store, miners, out]
HandleMessage(node, message) ==
    IF message.type = "BLOCK"
    THEN BlockReceived(node,
             GetNextBlock(ChainAddBlock(node.store, Unwrap(message.block)).store))
    ELSE IF message.type = "REQUEST_BLOCK"
    THEN BlockRequested(node, ChainGetBlock(node.store, Unwrap(message.index)))
    ELSE IF message.type = "REGISTER_MINERS"
    THEN [store |-> node.store,
          miners |-> RegisterMiners(node.miners, message.miners), out |-> <<>>]
    ELSE IF message.type = "REQUEST_REGISTERED_MINERS"
    THEN [store |-> node.store, miners |-> node.miners,
          out |-> <<Publish(MsgRegisterMiners(node.miners.miners))>>]
    ELSE [store |-> node.store, miners |-> node.miners, out |-> <<>>]

\* the chain of a database that was empty at the first open
GenesisStore == ChainOpen(<<>>).store

\* the blocks handed to the chains of the two nodes before they connect
SyncBlocks(s) == {b \in BlockInputs(s) : b.txns = Transactions[1]}

\* the chains a node may hold after at most k calls of add_block
RECURSIVE ChainsAfter(_)
ChainsAfter(k) ==
    IF k = 0 THEN {GenesisStore}
    ELSE ChainsAfter(k - 1)
             \cup UNION {{ChainAddBlock(s, b).store : b \in SyncBlocks(s)} :
                          s \in ChainsAfter(k - 1)}

\* the chain holds blocks at 0, 1, ... without a gap
Contiguous(s) ==
    /\ DOMAIN s = 0..(Cardinality(DOMAIN s) - 1)
    /\ \A k \in DOMAIN s : Len(s[k]) = 1

\* chain b is chain a cut after one of its blocks, and shorter than a
ProperPrefix(b, a) ==
    /\ Contiguous(a)
    /\ Contiguous(b)
    /\ Cardinality(DOMAIN b) >= 1
    /\ Cardinality(DOMAIN b) < Cardinality(DOMAIN a)
    /\ \A k \in DOMAIN b : b[k] = a[k]

\* the id of node A
PeerId == PeerList[1]

\* two running nodes have just connected: B's chain is a proper prefix of A's
SyncInit ==
    /\ store \in ChainsAfter(MaxIndex)
    /\ peer \in {NodeOf(a, NewMiningDatabase(PeerId)) : a \in ChainsAfter(MaxIndex)}
    /\ ProperPrefix(store, peer.store)
    /\ open = TRUE
    /\ miners = NewMiningDatabase(HostId)
    /\ last = NoOp
    /\ outbox = <<>>
    /\ events = NoEvents
    /\ client = NoClient
    /\ wire = NoWire

\* fewer than MaxWire messages are on their way between the nodes
Quiet == Len(wire.toA) + Len(wire.toB) < MaxWire

\* the interval of node B elapses: what B publishes is on its way to A
BTick ==
    /\ Quiet
    /\ \E t \in {Tick(NodeOf(store, miners))} :
        /\ store' = t.store
        /\ miners' = t.miners
        /\ wire' = [wire EXCEPT !.toA = @ \o Messages(t.out)]
    /\ UNCHANGED <<open, last, outbox, events, client, peer>>

\* the interval of node A elapses
ATick ==
    /\ Quiet
    /\ \E t \in {Tick(peer)} :
        /\ peer' = NodeOf(t.store, t.miners)
        /\ wire' = [wire EXCEPT !.toB = @ \o Messages(t.out)]
    /\ UNCHANGED <<nodeVars, events, client>>

\* node B handles the next message that reached it
BDeliver ==
    /\ wire.toB # <<>>
    /\ \E h \in {HandleMessage(NodeOf(store, miners), Head(wire.toB))} :
        /\ store' = h.store
        /\ miners' = h.miners
        /\ wire' = [toB |-> Tail(wire.toB), toA |-> wire.toA \o Messages(h.out)]
    /\ UNCHANGED <<open, last, outbox, events, client, peer>>

\* node A handles the next message that reached it
ADeliver ==
    /\ wire.toA # <<>>
    /\ \E h \in {HandleMessage(peer, Head(wire.toA))} :
        /\ peer' = NodeOf(h.store, h.miners)
        /\ wire' = [toA |-> Tail(wire.toA), toB |-> wire.toB \o Messages(h.out)]
    /\ UNCHANGED <<nodeVars, events, client>>

SyncNext ==
    \/ BTick
    \/ ATick
    \/ BDeliver
    \/ ADeliver

\* the two event loops are scheduled fairly and every published message is
\* delivered: the interval of each node elapses again and again and each node
\* handles the messages that reached it
SyncSpec ==
    /\ SyncInit
    /\ [][SyncNext]_vars
    /\ SF_vars(BTick)
    /\ SF_vars(ATick)
    /\ WF_vars(BDeliver)
    /\ WF_vars(ADeliver)

\* the two event loops as in SyncSpec, with the weak fairness of the two
\* deliveries written out: a delivery is enabled exactly when its queue is not
\* empty, so either the queue is empty again and again or the node handles a
\* message again and again
ExchangeSpec ==
    /\ SyncInit
    /\ [][SyncNext]_vars
    /\ SF_vars(BTick)
    /\ SF_vars(ATick)
    /\ ([]<>(wire.toB = <<>>) \/ []<><<BDeliver>>_vars)
    /\ ([]<>(wire.toA = <<>>) \/ []<><<ADeliver>>_vars)

\* two connected nodes with any chains, diverged ones included, no interval
\* elapsing and no Transaction arriving: node A has just published one of the
\* blocks it holds, which is on its way to node B
CascadeInit ==
    /\ store \in ChainsAfter(MaxIndex)
    /\ peer \in {NodeOf(a, NewMiningDatabase(PeerId)) : a \in ChainsAfter(MaxIndex)}
    /\ open = TRUE
    /\ miners = NewMiningDatabase(HostId)
    /\ last = NoOp
    /\ outbox = <<>>
    /\ events = NoEvents
    /\ client = NoClient
    /\ wire \in {[toA |-> <<>>, toB |-> <<MsgBlock(b)>>] :
                     b \in {x \in StoredBlocks(peer.store) : x.index >= 1}}

\* the messages in flight are handled, nothing else happens
CascadeNext ==
    \/ BDeliver
    \/ ADeliver

\* every published message is delivered and handled
CascadeSpec ==
    /\ CascadeInit
    /\ [][CascadeNext]_vars
    /\ WF_vars(BDeliver)
    /\ WF_vars(ADeliver)

\* the chains of the node a client sends its request to: blocks 0, 1, ...
\* without a gap
RetryStores == {s \in ChainsAfter(MaxIndex) : Contiguous(s)}

\* the requests of the client: a transfer from Alice's wallet to itself, of
\* any amount and with any key and signature the inputs have
RetryRequests ==
    {m \in TransactionRequests :
        /\ m.peer_id = PeerId
        /\ m.input_address = Alice
        /\ m.output_address = Alice}

\* what a select of the client's wait loop yields while the client and the
\* node stay connected or reconnect
RetryEvents ==
    {e \in ClientEvents :
        \/ e.arm = "swarm" /\ e.kind = "ConnectionEstablished"
        \/ e.arm = "message" /\ e.kind = "TRANSACTION_RESULT"}

\* a running node and a client that has just called
\* wait_for_transaction_result(node, msg)
RetryInit ==
    /\ store \in RetryStores
    /\ open = TRUE
    /\ miners = NewMiningDatabase(HostId)
    /\ last = NoOp
    /\ outbox = <<>>
    /\ events = NoEvents
    /\ client \in {[NoClient EXCEPT !.waiting = "TRANSACTION_RESULT", !.msg = m] :
                      m \in RetryRequests}
    /\ peer = NoPeer
    /\ wire = NoWire

\* the node handles the next copy of the request the client published:
\* Application::on_transaction(transaction_msg); events.handled lists the
\* publications handled so far
DeliverTransaction ==
    /\ Idle
    /\ open
    /\ Len(events.handled) < Len(client.published)
    /\ \E r \in {HandleTransaction(
                     client.published[Len(events.handled) + 1].message,
                     store, miners)} :
        /\ store' = r.store
        /\ miners' = r.db
        /\ open' = (r.ret # "Panic")
        /\ last' = [Op("on_transaction", r.ret, None, None, None, None)
                        EXCEPT !.msg = Some(client.published[
                                            Len(events.handled) + 1].message)]
        /\ outbox' = r.out
    /\ events' = [events EXCEPT !.handled = Append(@, Len(@) + 1)]
    /\ UNCHANGED <<client, peer, wire>>

\* the client's wait loop and the node's event loop side by side
RetryNext ==
    \/ \E event \in RetryEvents : ClientLoop(event)
    \/ DeliverTransaction
    \/ Return

RetrySpec == RetryInit /\ [][RetryNext]_vars

----------------------------------------------------------------------------
(* Properties *)

\* the key holds a value that deserializes
HoldsBlock(s, k) == k \in DOMAIN s /\ Len(s[k]) = 1

\* the key holds a value that does not deserialize
HoldsBadValue(s, k) == k \in DOMAIN s /\ Len(s[k]) = 0

\* the step is the operation `op` called with a block, on a store where
\* get_latest_block() succeeds
BlockStep(op) == last'.op = op /\ GetLatestBlock(store).ret = "Ok"

\* the latest block before the step, and the block the operation is called with
LatestBefore == Unwrap(GetLatestBlock(store).val)
GivenBlock == Unwrap(last'.block)

C2_ParentLinkage ==
    \A i \in DOMAIN store :
        (i > 0 /\ HoldsBlock(store, i)) =>
            LET lower == {k \in 0..(i - 1) : HoldsBlock(store, k)}
                parent == store[CHOOSE k \in lower : \A j \in lower : j <= k][1]
            IN  /\ lower # {}
                /\ store[i][1].header.previous_block_header_hash
                       = {parent.header.merkle_root_hash}
                /\ parent.index < store[i][1].index

\* C3: a block received from a peer whose index is not latest.index + 1 is
\* rejected with InvalidBlock and not stored, whatever its previous hash.
C3_OnlyNextIndexAccepted ==
    [][(BlockStep("on_block_received")
            /\ GivenBlock.index # LatestBefore.index + 1) =>
        /\ last'.ret = "InvalidBlock"
        /\ Get(store', GivenBlock.index) = Get(store, GivenBlock.index)]_vars

\* C4: once a block has been accepted at index i > 0, every later add_block of
\* a block with index i returns InvalidBlock and leaves the block stored at i
\* unchanged.
C4_FirstAcceptedWins ==
    [][(BlockStep("add_block") /\ GivenBlock.index > 0
            /\ HoldsBlock(store, GivenBlock.index)) =>
        /\ last'.ret = "InvalidBlock"
        /\ Get(store', GivenBlock.index) = Get(store, GivenBlock.index)]_vars

\* C5: whenever add_block(b) returns InvalidBlock the store is unchanged:
\* get_block(i) returns the same result for every i and get_latest_block is
\* unchanged.
C5_RejectLeavesStore ==
    [][(last'.op = "add_block" /\ last'.ret = "InvalidBlock") =>
        /\ \A i \in 0..(MaxIndex + 1) :
              /\ ChainGetBlock(store', i).ret = ChainGetBlock(store, i).ret
              /\ ChainGetBlock(store', i).val = ChainGetBlock(store, i).val
        /\ GetLatestBlock(store').ret = GetLatestBlock(store).ret
        /\ GetLatestBlock(store').val = GetLatestBlock(store).val
        /\ store' = store]_vars

\* C5 witness: add_block has rejected a block whose index is above the latest
\* one (its previous hash did not match)
C5_Witness ==
    /\ last.op = "add_block"
    /\ last.ret = "InvalidBlock"
    /\ GetLatestBlock(store).ret = "Ok"
    /\ Unwrap(last.block).index > Unwrap(GetLatestBlock(store).val).index

\* C6: once a block is stored at index i, get_block(i) returns that block in
\* every later state.
C6_EntriesImmutable ==
    [][\A i \in DOMAIN store :
        HoldsBlock(store, i) => Get(store', i) = Get(store, i)]_vars

\* C7: while the chain is open key 0 is present and get_genesis_block returns
\* a block with index 0 without failing; no operation has panicked.
C7_NeverEmpty ==
    /\ last.ret # "Panic"
    /\ open =>
        /\ 0 \in DOMAIN store
        /\ GetGenesisBlock(store).ret = "Ok"
        /\ Unwrap(GetGenesisBlock(store).val).index = 0

\* C7 witness: the chain is open and a read has just hit a value that does
\* not deserialize (and deleted it)
C7_Witness ==
    /\ open
    /\ last.op \in {"get_block", "add_block", "on_block_received",
                    "generate_next_block",
                    "on_get_next_block_tick", "on_block_requested"}
    /\ last.ret = "Json"

\* C8: opening a store without key 0 writes exactly one value, the genesis
\* block (index 0, no previous hash), at key 0; opening a store that holds
\* key 0 writes nothing, and if the value at key 0 deserializes the open
\* succeeds and the store is unchanged.
C8_OpenGenesisOnce ==
    [][last'.op = "open" =>
        IF 0 \notin DOMAIN store
        THEN /\ last'.ret = "Ok"
             /\ DOMAIN store' = DOMAIN store \cup {0}
             /\ \A k \in DOMAIN store : store'[k] = store[k]
             /\ HoldsBlock(store', 0)
             /\ store'[0][1].index = 0
             /\ store'[0][1].header.previous_block_header_hash = {}
             /\ store'[0][1] = GenesisBlock
        ELSE /\ DOMAIN store' \subseteq DOMAIN store
             /\ \A k \in DOMAIN store' : store'[k] = store[k]
             /\ \A k \in DOMAIN store : HoldsBlock(store, k) => k \in DOMAIN store'
             /\ HoldsBlock(store, 0) => (last'.ret = "Ok" /\ store' = store)]_vars

\* C8 witness: a chain that already held blocks beyond genesis was opened again
C8_Witness ==
    /\ last.op = "open"
    /\ last.ret = "Ok"
    /\ HoldsBlock(store, 0)
    /\ HoldsBlock(store, 1)

\* C9: get_block(i) on a value that does not deserialize returns an error and
\* deletes key i, so that the next get_block(i) returns None; no other key
\* changes.
C9_BadValueDeleted ==
    [][(last'.op = "get_block" /\ HoldsBadValue(store, Unwrap(last'.index))) =>
        /\ last'.ret = "Json"
        /\ Unwrap(last'.index) \notin DOMAIN store'
        /\ ChainGetBlock(store', Unwrap(last'.index)).ret = "Ok"
        /\ ChainGetBlock(store', Unwrap(last'.index)).val = {}
        /\ \A k \in 0..(MaxIndex + 1) :
              k # Unwrap(last'.index) => Get(store', k) = Get(store, k)]_vars

\* C9 witness: get_block has just failed on a bad value while another key
\* beyond genesis still holds a block or a bad value
C9_Witness ==
    /\ last.op = "get_block"
    /\ last.ret = "Json"
    /\ Unwrap(last.index) \notin DOMAIN store
    /\ \E k \in DOMAIN store : k # 0

\* C10: a successful generate_next_block(tx) appends exactly one block, at
\* index latest + 1, with the latest block's merkle_root_hash as previous
\* hash, the Merkle root over the transactions of blocks 0..latest as
\* merkle_root_hash and tx as transaction; the block returned is that block
\* and is get_latest_block().
C10_GenerateAppendsAndReturns ==
    [][(last'.op = "generate_next_block" /\ last'.ret = "Ok") =>
        \E new_block \in
                {Block(LatestBefore.index + 1,
                       Header({LatestBefore.header.merkle_root_hash},
                              PrefixTransactions(store, 0), Now),
                       Unwrap(last'.txn))} :
            /\ LatestBefore.index + 1 \notin DOMAIN store
            /\ store' = Put(store, LatestBefore.index + 1, <<new_block>>)
            /\ last'.val = {new_block}
            /\ GetLatestBlock(store').val = {new_block}]_vars

\* the step is the handling of a Transaction message
TransactionStep == last'.op = "on_transaction"

\* the Transaction message the step handles
Request == Unwrap(last'.msg)

\* wallet_amount(input) is Some(balance) with balance >= amount, on store s
Funded(s, req) ==
    /\ WalletAmount(s, req.input_address).ret = "Ok"
    /\ WalletAmount(s, req.input_address).val # None
    /\ Unwrap(WalletAmount(s, req.input_address).val) >= req.amount

\* wallet_exists(output) is true, on store s
OutputKnown(s, req) ==
    /\ WalletExists(s, req.output_address).ret = "Ok"
    /\ WalletExists(s, req.output_address).val

\* C11: the admission pipeline reports the first check that fails, in the
\* order: amount < 0 (InsufficientBalance, even if the input wallet is
\* unknown), wallet_amount(input) = None (InputWalletNotFound), balance <
\* amount (InsufficientBalance), wallet_exists(output) = false
\* (OutputWalletNotFound); a result of the signature check or OK is given
\* only when all of these pass.
C11_ChecksInOrder ==
    [][TransactionStep =>
        \A w \in {WalletAmount(store, Request.input_address)} :
            /\ Request.amount < 0 => last'.ret = "InsufficientBalance"
            /\ (Request.amount >= 0 /\ w.ret = "Ok" /\ w.val = None)
                   => last'.ret = "InputWalletNotFound"
            /\ (Request.amount >= 0 /\ w.ret = "Ok" /\ w.val # None
                    /\ Unwrap(w.val) < Request.amount)
                   => last'.ret = "InsufficientBalance"
            /\ (Request.amount >= 0 /\ Funded(store, Request)
                    /\ WalletExists(store, Request.output_address).ret = "Ok"
                    /\ ~WalletExists(store, Request.output_address).val)
                   => last'.ret = "OutputWalletNotFound"
            /\ last'.ret \in {"Ok", "InvalidSignature", "WalletError"}
                   => /\ Request.amount >= 0
                      /\ Funded(store, Request)
                      /\ OutputKnown(store, Request)]_vars

\* C11 witness: a request with a known, funded input wallet was rejected
\* because its output wallet is unknown
C11_Witness ==
    /\ last.op = "on_transaction"
    /\ last.ret = "OutputWalletNotFound"
    /\ Unwrap(last.msg).amount > 0
    /\ Funded(store, Unwrap(last.msg))

\* the step answers a Transaction request NOK
AnsweredNok == TransactionStep /\ last'.ret \notin {"Ok", "Panic"}

\* a Block message is among the messages out
BlockPublished(out) ==
    \E i \in 1..Len(out) : out[i].message.type = "BLOCK"

\* C12: every Transaction request answered NOK leaves the chain unchanged
\* (get_latest_block and every get_block(i) return what they returned
\* before) and causes no Block message to be published.
C12_NokLeavesChain ==
    [][AnsweredNok =>
        /\ \A i \in 0..(MaxIndex + 1) :
              /\ ChainGetBlock(store', i).ret = ChainGetBlock(store, i).ret
              /\ ChainGetBlock(store', i).val = ChainGetBlock(store, i).val
        /\ GetLatestBlock(store').ret = GetLatestBlock(store).ret
        /\ GetLatestBlock(store').val = GetLatestBlock(store).val
        /\ ~BlockPublished(outbox')]_vars

\* C12 amended: every Transaction request answered NOK publishes no Block
\* message, writes no key and leaves every stored block as it is; the only
\* keys it removes hold a value that does not deserialize (the reads of the
\* pipeline delete them), and on a chain whose get_latest_block succeeds it
\* changes nothing.
C12_NokKeepsBlocks ==
    [][AnsweredNok =>
        /\ ~BlockPublished(outbox')
        /\ DOMAIN store' \subseteq DOMAIN store
        /\ \A k \in DOMAIN store' : store'[k] = store[k]
        /\ \A k \in DOMAIN store : HoldsBlock(store, k) => k \in DOMAIN store'
        /\ GetLatestBlock(store).ret = "Ok" => store' = store]_vars

\* C12 witness: a request for more than the balance of a wallet known to a
\* chain with blocks beyond genesis was answered NOK
C12_Witness ==
    /\ last.op = "on_transaction"
    /\ last.ret = "InsufficientBalance"
    /\ Unwrap(last.msg).amount > 0
    /\ HoldsBlock(store, 1)
    /\ Len(outbox) = 1
    /\ outbox[1].message.status = Some("NOK")

\* Wallet::verify(digest of the rebuilt transaction, request.signature,
\* request.public_key) is true
ValidSignature(req) ==
    LET transaction == BuildTransaction(TransactionOptions(req), HostAddress)
        v == WalletVerify(Digest(transaction), req.signature, req.public_key)
    IN  v.ret = "Ok" /\ v.val

\* the request passes every admission check on store s
Admissible(s, req) ==
    /\ req.amount >= 0
    /\ Funded(s, req)
    /\ OutputKnown(s, req)
    /\ ValidSignature(req)

\* C13: an admitted Transaction(A, B, a > 0, f) appends exactly one block, at
\* index latest + 1, whose transaction has inputs [(A, a)] and outputs
\* [(B, a - f), (host address, f)].
C13_AdmittedAppendsBlock ==
    [][(TransactionStep /\ Request.amount > 0 /\ Admissible(store, Request)) =>
        \E index \in {LatestBefore.index + 1} :
            /\ index \notin DOMAIN store
            /\ HoldsBlock(store', index)
            /\ store' = Put(store, index, store'[index])
            /\ store'[index][1].index = index
            /\ store'[index][1].txns.inputs =
                   <<Entry(Request.input_address, Request.amount)>>
            /\ store'[index][1].txns.outputs =
                   <<Entry(Request.output_address, Request.amount - Fee),
                     Entry(HostAddress, Fee)>>]_vars

\* the step appends, at index latest + 1, the block of a transfer of amount a
\* from wallet A (holding at least a) to wallet B
TransferAppended(A, B, a) ==
    /\ last'.op \in {"on_transaction", "on_block_received"}
    /\ GetLatestBlock(store).ret = "Ok"
    /\ Funded(store, [input_address |-> A, amount |-> a])
    /\ (LatestBefore.index + 1) \notin DOMAIN store
    /\ HoldsBlock(store', LatestBefore.index + 1)
    /\ store'[LatestBefore.index + 1][1].txns.inputs = <<Entry(A, a)>>
    /\ store'[LatestBefore.index + 1][1].txns.outputs =
           <<Entry(B, a - Fee), Entry(HostAddress, Fee)>>

\* C14: once the block of an admitted transfer of a from A to B (A, B and
\* the host address distinct) is on the chain, wallet_amount(A) is lower by a
\* and wallet_amount(B) is higher by a - fee than before it.
C14_TransferMovesBalances ==
    [][\A A \in RequestAddresses, B \in RequestAddresses,
          a \in {x \in RequestAmounts : x > 0} :
        (A # B /\ TransferAppended(A, B, a)) =>
            /\ WalletAmount(store', A).ret = "Ok"
            /\ WalletAmount(store', A).val =
                   Some(Unwrap(WalletAmount(store, A).val) - a)
            /\ WalletAmount(store, B).val # None =>
                   WalletAmount(store', B).val =
                       Some(Unwrap(WalletAmount(store, B).val) + a - Fee)]_vars

\* the address is in no input and no output of a block stored in s
NeverAppeared(s, addr) ==
    \A b \in StoredBlocks(s) :
        /\ \A i \in 1..Len(b.txns.inputs) : b.txns.inputs[i].address # addr
        /\ \A i \in 1..Len(b.txns.outputs) : b.txns.outputs[i].address # addr

\* C15: a zero-amount Transaction request with a valid signature, whose input
\* and output address is a wallet address that never appeared on the chain,
\* is answered OK, and afterwards wallet_exists(address) is true.
C15_ZeroAmountRegisters ==
    [][(/\ TransactionStep
        /\ Request.amount = 0
        /\ Request.output_address = Request.input_address
        /\ ValidSignature(Request)
        /\ GetLatestBlock(store).ret = "Ok"
        /\ NeverAppeared(store, Request.input_address)) =>
            /\ last'.ret = "Ok"
            /\ WalletExists(store', Request.input_address).ret = "Ok"
            /\ WalletExists(store', Request.input_address).val]_vars

\* Wallet::verify on the digest of the transaction the node rebuilds from the
\* request, with the request's signature and public key
VerifyRequest(req) ==
    WalletVerify(Digest(BuildTransaction(TransactionOptions(req), HostAddress)),
                 req.signature, req.public_key)

\* C16: a Transaction request that passed the amount, balance and output
\* checks is answered OK (its block generated) only if Wallet::verify(digest
\* of the rebuilt transaction, request.signature, request.public_key) is true;
\* it is rejected with InvalidSignature when verify is false and with
\* WalletError when the signature or the public key does not parse.
C16_SignatureDecides ==
    [][(/\ TransactionStep
        /\ Request.amount >= 0
        /\ Funded(store, Request)
        /\ OutputKnown(store, Request)) =>
            /\ last'.ret = "Ok" =>
                   (VerifyRequest(Request).ret = "Ok" /\ VerifyRequest(Request).val)
            /\ (VerifyRequest(Request).ret = "Ok" /\ ~VerifyRequest(Request).val) =>
                   last'.ret = "InvalidSignature"
            /\ VerifyRequest(Request).ret # "Ok" => last'.ret = "WalletError"]_vars

\* the positions in `out` of the messages of the given type
Positions(out, type) == {i \in 1..Len(out) : out[i].message.type = type}

\* C17: handling a Transaction message sends exactly one TransactionResult,
\* on the topic of request.peer_id and never on the shared topic; a Block
\* message is published on the shared topic iff the result is OK, and after
\* the OK result was sent.
C17_OneResultToPeer ==
    [][TransactionStep =>
        /\ Cardinality(Positions(outbox', "TRANSACTION_RESULT")) = 1
        /\ \A i \in Positions(outbox', "TRANSACTION_RESULT") :
              /\ outbox'[i].topic = Request.peer_id
              /\ outbox'[i].topic # SharedTopic
              /\ outbox'[i].message.status =
                     Some(IF last'.ret = "Ok" THEN "OK" ELSE "NOK")
        /\ Positions(outbox', "BLOCK") # {} <=> last'.ret = "Ok"
        /\ \A j \in Positions(outbox', "BLOCK") :
              /\ outbox'[j].topic = SharedTopic
              /\ \A i \in Positions(outbox', "TRANSACTION_RESULT") : i < j]_vars

\* the step appends a block at index latest + 1
BlockAppended ==
    /\ (LatestBefore.index + 1) \notin DOMAIN store
    /\ HoldsBlock(store', LatestBefore.index + 1)

\* C18: the roster gates block production: handling an admitted Transaction,
\* the node appends a block when, and only when, the pointer rotated by
\* set_last_block_miner is the host itself.
C18_RosterGatesProduction ==
    [][(/\ TransactionStep
        /\ Admissible(store, Request)
        /\ SetLastBlockMiner(miners).ret = "Ok") =>
            (BlockAppended <=>
                SetLastBlockMiner(miners).db.last_block_mined_by = Some(HostId))]_vars

\* C19: in every reachable state the roster is non-empty and its slot 0 holds
\* the host miner; unregister_miner never removes slot 0, not even when it is
\* given the host's id.
C19_HostKeepsSlotZero ==
    /\ Len(miners.miners) >= 1
    /\ miners.miners[1] = HostId

\* no id is twice in the roster
DistinctIds(roster) ==
    \A i \in 1..Len(roster), j \in 1..Len(roster) :
        i # j => roster[i] # roster[j]

\* C20: register_miner is idempotent (registering the same miner again leaves
\* the roster as the first call left it), and after every register_miner,
\* unregister_miner and RegisterMiners message, lists that repeat an id or
\* carry the host's id included, the ids of the roster are pairwise distinct.
C20_RosterIdsDistinct ==
    [][/\ DistinctIds(miners'.miners)
       /\ last'.op = "register_miner" =>
              RegisterMiner(miners', Unwrap(last'.id)) = miners']_vars

\* C20 witness: a RegisterMiners message naming the same peer twice was
\* handled and that peer is in the roster once, after the host
C20_Witness ==
    /\ last.op = "on_register_miners"
    /\ Len(last.roster) = 2
    /\ last.roster[1] = last.roster[2]
    /\ last.roster[1] # HostId
    /\ miners.miners = <<HostId, last.roster[1]>>

\* the miner a round-robin step designates on roster db: slot 0 when no
\* miner is designated, the slot after the designated one (modulo the length
\* of the roster) otherwise
RoundRobinNext(db) ==
    IF LastBlockMinedBy(db) = None THEN At(db, 0)
    ELSE At(db, (Unwrap(IndexOf(db, Unwrap(LastBlockMinedBy(db)))) + 1)
                    % Len(db.miners))

\* C21: set_last_block_miner is a pure round-robin step: it returns, leaves
\* the roster as it is and sets last_block_mined_by to the miner at slot 0
\* when the pointer is unset, to the miner at index (k + 1) mod len(roster)
\* when the pointer is at index k.
C21_RoundRobinStep ==
    [][last'.op = "set_last_block_miner" =>
        /\ last'.ret = "Ok"
        /\ miners'.miners = miners.miners
        /\ RoundRobinNext(miners) # None
        /\ miners'.last_block_mined_by = RoundRobinNext(miners)]_vars

\* C22: every live miner takes a turn: under repeated set_last_block_miner
\* calls, whatever miners are registered and unregistered in between, a miner
\* of the roster is eventually designated as last_block_mined_by, unless it is
\* unregistered (or the process ends) first.
C22_EveryMinerTakesATurn ==
    \A m \in MinerIds :
        (open /\ MinerExists(miners, m)) ~>
            \/ miners.last_block_mined_by = Some(m)
            \/ ~MinerExists(miners, m)
            \/ ~open

\* the handlers of handle_message and of the tick
HandlerOps ==
    {"on_block_received", "on_block_requested", "on_get_next_block_tick",
     "on_transaction", "on_wallet_details_query"}

\* C23: a failure inside the handler of a message never kills the event loop:
\* whatever Block, RequestBlock, Transaction and WalletDetails messages and
\* ticks arrive, no handler panics (no assertion fails, no unwrap of a None)
\* and after every handler the application is still running.
C23_HandlersNeverPanic ==
    last.op \in HandlerOps => (last.ret # "Panic" /\ open)

\* the step is the handling of a WalletDetails query that was answered OK
WalletQueryAnswered ==
    /\ last'.op = "on_wallet_details_query"
    /\ last'.ret = "Ok"

\* C25: whenever the wallet-query handler answers OK, the balance it reports
\* is the balance wallet_amount(address) computes on the same chain.
C25_QueryBalanceIsWalletAmount ==
    [][WalletQueryAnswered =>
        /\ WalletAmount(store, Unwrap(last'.msg).address).ret = "Ok"
        /\ outbox'[1].message.balance
               = WalletAmount(store, Unwrap(last'.msg).address).val]_vars

\* the addresses the transactions of the model name
Addresses == {Alice, Bob, HostAddress, GenesisBlockAddress}

\* every amount of the transaction is zero or more, so that amount_spent is
\* never positive and amount_received never negative, for any address
NonNegative(transaction) ==
    /\ \A i \in 1..Len(transaction.inputs) : transaction.inputs[i].amount >= 0
    /\ \A i \in 1..Len(transaction.outputs) : transaction.outputs[i].amount >= 0
    /\ \A a \in Addresses :
          AmountSpent(transaction, a) <= 0 /\ AmountReceived(transaction, a) >= 0

\* C28: every transaction of a stored block, generated by the admission
\* pipeline or accepted from a peer's Block message, has only non-negative
\* amounts, so that the assertions of amount_spent and amount_received hold.
C28_StoredAmountsNonNegative ==
    \A k \in DOMAIN store :
        HoldsBlock(store, k) => NonNegative(store[k][1].txns)

\* the step is the handling of a Block message
BlockMessageStep == last'.op = "on_block_received"

\* the store once add_block(b) has returned, before get_next_block
AfterAdd == ChainAddBlock(store, GivenBlock).store

\* C29 as stated: after handling Block(b), accepted or rejected, the node has
\* published exactly one RequestBlock, for the index of the latest block after
\* the add attempt plus 1.
C29_OneRequestAfterBlock ==
    [][BlockMessageStep =>
        /\ GetLatestBlock(store').ret = "Ok"
        /\ outbox' = <<Publish(MsgRequestBlock(
                          Unwrap(GetLatestBlock(store').val).index + 1))>>]_vars

\* C29 amended: after handling Block(b), accepted or rejected, the node has
\* published exactly one RequestBlock, for the index of the latest block after
\* the add attempt plus 1, when get_latest_block succeeds after the add
\* attempt; when it fails nothing is published.
C29_OneRequestWhenLatestKnown ==
    [][BlockMessageStep =>
        IF GetLatestBlock(AfterAdd).ret = "Ok"
        THEN outbox' = <<Publish(MsgRequestBlock(
                            Unwrap(GetLatestBlock(AfterAdd).val).index + 1))>>
        ELSE outbox' = <<>>]_vars

\* C29 witness: a Block message was rejected and the next block after the
\* unchanged latest one was requested all the same
C29_Witness ==
    /\ last.op = "on_block_received"
    /\ last.ret = "InvalidBlock"
    /\ HoldsBlock(store, 1)
    /\ GetLatestBlock(store).ret = "Ok"
    /\ outbox = <<Publish(MsgRequestBlock(
                     Unwrap(GetLatestBlock(store).val).index + 1))>>

\* the sum of the amounts of the entries
RECURSIVE Total(_)
Total(entries) ==
    IF Len(entries) = 0 THEN 0 ELSE entries[1].amount + Total(Tail(entries))

\* the transaction conserves value, the fee being an output of its own to the
\* host's address
ConservesValue(transaction) ==
    /\ Total(transaction.inputs) = Total(transaction.outputs)
    /\ Len(transaction.outputs) >= 1
    /\ transaction.outputs[Len(transaction.outputs)] = Entry(HostAddress, Fee)

\* the transaction create_transaction builds for the request req
Built(req) == BuildTransaction(TransactionOptions(req), HostAddress)

C24_PeerOrderPreserved ==
    \A i, j \in 1..Len(events.handled) :
        (/\ i < j
         /\ events.injected[events.handled[i]].source
                = events.injected[events.handled[j]].source)
            => events.handled[i] < events.handled[j]

\* the iterations of the wait loop that handled a connection event
ConnectionIterations ==
    {i \in 1..Len(client.seen) :
        client.seen[i].arm = "swarm" /\ client.seen[i].kind \in ConnectionEvents}

\* the iterations of the wait loop that received a message of the type waited for
ResultIterations ==
    {i \in 1..Len(client.seen) :
        client.seen[i].arm = "message" /\ client.seen[i].kind = client.waiting}

\* C26: a client waiting for a TransactionResult (or WalletDetailsResult)
\* publishes its request once in each iteration that observed a
\* ConnectionEstablished or ConnectionClosed event, and in no other (so
\* nothing before the first such event); it returns with the first message of
\* the type it waits for, which ends the loop: no event is handled after it.
C26_ClientRepublishes ==
    /\ {client.published[i].at : i \in 1..Len(client.published)}
           = ConnectionIterations
    /\ Len(client.published) = Cardinality(ConnectionIterations)
    /\ \A i \in 1..Len(client.published) : client.published[i].message = client.msg
    /\ ~client.should_publish_transaction
    /\ ResultIterations \subseteq {Len(client.seen)}
    /\ client.returned # None <=> ResultIterations # {}
    /\ client.returned # None => client.returned = Some(client.seen[Len(client.seen)])

\* C26 witness: the client published its request after each of two connection
\* events, not before the first, and returned with the result that followed
C26_Witness ==
    /\ client.waiting = "TRANSACTION_RESULT"
    /\ Len(client.seen) = 3
    /\ client.seen[1].kind = "ConnectionEstablished"
    /\ client.seen[2].kind = "ConnectionClosed"
    /\ client.seen[3].kind = "TRANSACTION_RESULT"
    /\ Len(client.published) = 2
    /\ client.returned # None

\* node B holds every block of node A and its latest block is A's
Synchronised ==
    /\ \A k \in DOMAIN peer.store : Get(store, k) = Get(peer.store, k)
    /\ GetLatestBlock(store).ret = "Ok"
    /\ GetLatestBlock(store).val = GetLatestBlock(peer.store).val

\* C30: the chain tail synchronisation converges: when B's chain is a proper
\* prefix of A's contiguous chain, the event loops are scheduled fairly and
\* every message is delivered, B eventually stores A's blocks and
\* get_latest_block at B is A's latest block.
C30_TailSyncConverges == <>Synchronised

\* each of the two nodes has the other node's id in its roster
RostersExchanged ==
    /\ MinerExists(miners, PeerId)
    /\ MinerExists(peer.miners, HostId)

\* the last n messages of a queue
LastMessages(queue, n) == SubSeq(queue, Len(queue) - n + 1, Len(queue))

\* what send_miner_requests publishes for the roster db
MinerRequests(db) == <<MsgRegisterMiners(db.miners), MsgRequestRegisteredMiners>>

\* the interval of a node with a one-entry roster elapses: the last two
\* messages it puts on the wire are its roster, then the request for rosters
TickSendsMinerRequests ==
    /\ (BTick /\ Len(miners.miners) = 1)
          => (/\ Len(wire'.toA) >= Len(wire.toA) + 2
              /\ LastMessages(wire'.toA, 2) = MinerRequests(miners))
    /\ (ATick /\ Len(peer.miners.miners) = 1)
          => (/\ Len(wire'.toB) >= Len(wire.toB) + 2
              /\ LastMessages(wire'.toB, 2) = MinerRequests(peer.miners))

\* C31: two connected nodes that start with host-only rosters, scheduled
\* fairly and with every message delivered, end up each holding the other's
\* id in its roster; and every tick of a node whose roster has exactly one
\* entry publishes RegisterMiners(own roster), then RequestRegisteredMiners
C31_RosterExchangeConverges ==
    /\ <>RostersExchanged
    /\ [][TickSendsMinerRequests]_vars

\* C31 witness: both nodes ticked with a one-entry roster at the start and
\* each has since registered the other
C31_Witness ==
    /\ RostersExchanged
    /\ Len(miners.miners) = 2
    /\ Len(peer.miners.miners) = 2
    /\ wire = NoWire

\* the step handles RequestBlock{index}
BlockRequestStep == last'.op = "on_block_requested"

\* the index of the RequestBlock message the step handles
RequestedIndex == Unwrap(last'.index)

\* the step publishes Block(b) on the shared topic, and nothing else, if and
\* only if get_block(index) returns Some(b); otherwise it publishes nothing
PublishesBlockIffHeld ==
    IF /\ ChainGetBlock(store, RequestedIndex).ret = "Ok"
       /\ ChainGetBlock(store, RequestedIndex).val # None
    THEN outbox' = <<[topic |-> SharedTopic,
                      message |-> MsgBlock(
                          Unwrap(ChainGetBlock(store, RequestedIndex).val))]>>
    ELSE outbox' = <<>>

\* the step handles a TransactionResult or WalletDetailsResult message, or a
\* swarm event other than ConnectionClosed
IgnoredStep ==
    \/ last'.op = "on_result_message"
    \/ /\ last'.op = "on_swarm_event"
       /\ Unwrap(last'.msg).type # "ConnectionClosed"

\* C32: handling RequestBlock{index} publishes Block(b) on the shared topic
\* if and only if get_block(index) returns Some(b) and changes neither the
\* chain, the roster nor last_block_mined_by; result messages and swarm events
\* other than ConnectionClosed change none of them either.
C32_RequestBlockChangesNothing ==
    [][/\ BlockRequestStep =>
            /\ PublishesBlockIffHeld
            /\ store' = store
            /\ miners' = miners
       /\ IgnoredStep =>
            /\ store' = store
            /\ miners' = miners]_vars

\* C32 amended: as C32, except that handling RequestBlock{index} deletes key
\* index when its value does not deserialize; it writes no key and leaves
\* every other entry, the roster and last_block_mined_by as they are.
C32_RequestBlockKeepsBlocks ==
    [][/\ BlockRequestStep =>
            /\ PublishesBlockIffHeld
            /\ store' = IF HoldsBadValue(store, RequestedIndex)
                        THEN Delete(store, RequestedIndex) ELSE store
            /\ miners' = miners
       /\ IgnoredStep =>
            /\ store' = store
            /\ miners' = miners]_vars

\* C32 witness: a RequestBlock for a block beyond genesis that the chain
\* holds was answered with that block
C32_Witness ==
    /\ last.op = "on_block_requested"
    /\ last.index # None
    /\ Unwrap(last.index) >= 1
    /\ last.val # None
    /\ Len(outbox) = 1
    /\ outbox[1].message = MsgBlock(Unwrap(last.val))
    /\ outbox[1].topic = SharedTopic

\* the step is a call of add_block or of generate_next_block, successful or not
ChainWriteStep == last'.op \in {"add_block", "generate_next_block"}

\* get_latest_block returns the stored block with the greatest index
LatestIsGreatest(s) ==
    /\ GetLatestBlock(s).ret = "Ok"
    /\ Unwrap(GetLatestBlock(s).val).index = Cardinality(DOMAIN s) - 1
    /\ \A k \in DOMAIN s : k <= Unwrap(GetLatestBlock(s).val).index

\* C33: a call of add_block or generate_next_block on a chain whose stored
\* indices are 0..n without a gap leaves the stored indices a range 0..m
\* without a gap, and get_latest_block returns the stored block with the
\* greatest index.
C33_IndicesContiguous ==
    [][(ChainWriteStep /\ Contiguous(store) /\ HoldsBlock(store, 0))
          => (Contiguous(store') /\ LatestIsGreatest(store'))]_vars

\* the addresses that are the first input address of a stored block
FirstInputAddresses(s) ==
    {a \in Addresses :
        \E k \in DOMAIN s :
            /\ HoldsBlock(s, k)
            /\ InputAddress(s[k][1].txns) = Some(a)}

\* the addresses A with wallet_exists(A) = Ok(true)
ExistingWallets(s) ==
    {a \in Addresses : WalletExists(s, a).ret = "Ok" /\ WalletExists(s, a).val}

\* the results on_transaction gives only once the request has passed the
\* balance check and the output check
PassedWalletChecks == {"Ok", "WalletError", "InvalidSignature"}

\* the step answers the request NOK, to the peer that sent it, and publishes
\* nothing else
RepliesNok ==
    /\ last'.ret \notin {"Ok", "Panic"}
    /\ Len(outbox') = 1
    /\ outbox'[1].topic = Request.peer_id
    /\ outbox'[1].message.status = Some("NOK")

Dangling(db) ==
    /\ db.last_block_mined_by # None
    /\ ~MinerExists(db, Unwrap(db.last_block_mined_by))

\* C35: immediately after every set_last_block_miner call last_block_mined_by
\* names a miner that is in the roster, and a call made while the pointer
\* names an unregistered miner designates the miner at slot 0.
C35_PointerInRoster ==
    [][last'.op = "set_last_block_miner" =>
        /\ last'.ret = "Ok"
        /\ miners'.last_block_mined_by # None
        /\ MinerExists(miners', Unwrap(miners'.last_block_mined_by))
        /\ Dangling(miners) =>
              miners'.last_block_mined_by = At(miners, 0)]_vars

\* a block with the index and the previous block header hash of b and with a
\* transaction, a Merkle root and a timestamp that are none of b's: an empty
\* transaction with an undecodable signature, a root of no transaction list,
\* the epoch
SameLink(b) ==
    Block(b.index,
          Header(b.header.previous_block_header_hash, BogusHash, 0),
          Transaction(<<>>, <<>>, Garbage))

\* the step hands a block to add_block, directly or from a Block message:
\* the verdict is the one add_block gives, on the same chain, to the block
\* that agrees with it on the index and on the previous block header hash only
VerdictByLinkOnly ==
    last'.op \in {"add_block", "on_block_received"} =>
        ChainAddBlock(store, SameLink(GivenBlock)).ret = last'.ret

\* the step handles a Block message: the block is stored, as it was received,
\* exactly when its index is above the latest block's and its previous block
\* header hash is the latest block's Merkle root
StoredByLinkOnly ==
    (BlockMessageStep /\ GetLatestBlock(store).ret = "Ok") =>
        /\ last'.ret = "Ok" <=>
              /\ LatestBefore.index < GivenBlock.index
              /\ GivenBlock.header.previous_block_header_hash
                     = Some(LatestBefore.header.merkle_root_hash)
        /\ last'.ret = "Ok" =>
              /\ GivenBlock.index \in DOMAIN store'
              /\ store'[GivenBlock.index] = <<GivenBlock>>

\* C36: the verdict of add_block depends only on the block's index and
\* previous block header hash: in every chain state two blocks that agree on
\* both are both accepted or both rejected, whatever their transaction,
\* Merkle root and timestamp; and a block received from a peer is stored
\* without any check of its transaction.
C36_VerdictByLinkOnly ==
    [][VerdictByLinkOnly /\ StoredByLinkOnly]_vars

\* C36 witness: a block received from a peer whose transaction spends a
\* negative amount and whose Merkle root is the root of no transaction list
\* was accepted and is stored as received
C36_Witness ==
    /\ last.op = "on_block_received"
    /\ last.ret = "Ok"
    /\ Unwrap(last.block).txns = Transactions[2]
    /\ Unwrap(last.block).header.merkle_root_hash = BogusHash
    /\ Unwrap(last.block).index \in DOMAIN store
    /\ store[Unwrap(last.block).index] = <<Unwrap(last.block)>>

\* the step is a call of generate_next_block that returned a block
GenerateStep == last'.op = "generate_next_block" /\ last'.ret = "Ok"

\* the block the step produced: the one stored at the index after the block
\* that was the latest
Produced == store'[LatestBefore.index + 1][1]

\* the block another node holding the same chain produces for transaction t
ProducedFor(t) ==
    GenerateNextBlock(store, t).store[LatestBefore.index + 1][1]

\* C37: the merkle_root_hash of the block generate_next_block produces is
\* the root over the transactions of the blocks 0..latest, whatever the
\* transaction of the new block: a node with the same chain that generates
\* the next block for another transaction produces a header with the same
\* merkle_root_hash and the same previous_block_header_hash, and a block
\* produced at index 1 has the merkle_root_hash of the genesis block.
C37_RootOfStoredTransactions ==
    [][GenerateStep =>
        /\ Produced.txns = Unwrap(last'.txn)
        /\ Produced.header.merkle_root_hash
               = MerkleRoot(PrefixTransactions(store, 0))
        /\ \A t \in InputTransactions :
              /\ ProducedFor(t).txns = t
              /\ ProducedFor(t).header.merkle_root_hash
                     = Produced.header.merkle_root_hash
              /\ ProducedFor(t).header.previous_block_header_hash
                     = Produced.header.previous_block_header_hash
        /\ Produced.index = 1 =>
              Produced.header.merkle_root_hash
                  = GenesisBlock.header.merkle_root_hash]_vars

\* C37 witness: generate_next_block produced the block at index 1, and its
\* Merkle root is the genesis block's although its transaction is another
C37_Witness ==
    /\ last.op = "generate_next_block"
    /\ last.ret = "Ok"
    /\ HoldsBlock(store, 1)
    /\ store[1][1].txns = Unwrap(last.txn)
    /\ store[1][1].txns # GenesisTransaction
    /\ store[1][1].header.merkle_root_hash = store[0][1].header.merkle_root_hash

\* C38: the cascade of RequestBlock and Block messages that the delivery of
\* one Block message starts is finite: with no tick and no Transaction, the
\* two nodes reach a state with no message in flight.
C38_CascadeTerminates == <>(wire = NoWire)

\* the keys of s that hold a block with the transaction the node builds for
\* the request req
AppendedFor(req, s) ==
    {k \in DOMAIN s : HoldsBlock(s, k) /\ s[k][1].txns = Built(req)}

PointerHandlerOps ==
    {"on_block_received", "on_block_requested", "on_get_next_block_tick",
     "on_register_miners", "on_registered_miners_requested",
     "on_connection_closed", "on_swarm_event", "on_result_message",
     "on_wallet_details_query", "on_transaction"}

\* a handler writes last_block_mined_by only in on_transaction, for a
\* request create_transaction has returned Ok for
PointerFrame ==
    (/\ last'.op \in PointerHandlerOps
     /\ miners'.last_block_mined_by # miners.last_block_mined_by) =>
        /\ TransactionStep
        /\ CreateTransaction(TransactionOptions(Request),
                             HostAddress, store).ret = "Ok"

\* a Transaction that passes validation moves the pointer to the miner
\* set_last_block_miner designates, whatever generate_next_block returns
RotatesOnAdmission ==
    (/\ TransactionStep
     /\ Admissible(store, Request)
     /\ SetLastBlockMiner(miners).ret = "Ok") =>
        miners'.last_block_mined_by =
            SetLastBlockMiner(miners).db.last_block_mined_by

\* C40: last_block_mined_by changes only inside on_transaction, after
\* create_transaction has succeeded: a block received from a peer, a
\* Transaction rejected by validation, RegisterMiners and the ticks leave it
\* unchanged, and a Transaction that passes validation rotates it even when
\* generate_next_block then fails.
C40_PointerMovesOnAdmissionOnly ==
    [][PointerFrame /\ RotatesOnAdmission]_vars

====
